---------------------------- MODULE Spec2Model ----------------------------
(***************************************************************************)
(* fakepostmaster: the PostgreSQL v3 wire codec (libpq-serde-types,        *)
(* libpq-serde-macros, src/message.rs, src/backend.rs), the connection     *)
(* handlers (src/handler/mod.rs, src/handler/server.rs,                    *)
(* src/handler/client.rs) and the accept loop of examples/server.rs.       *)
(*                                                                         *)
(* Values of the codec:                                                    *)
(*   i8/i16/i32   an integer of the signed range                           *)
(*   Byte         0..255                                                   *)
(*   Byte4        a sequence of 4 bytes                                    *)
(*   CString      the sequence of its bytes, none of them 0                *)
(*   Vec16/Vec32/VecNull   the sequence of the elements                    *)
(*   a struct     a record with the struct's field names                   *)
(* A byte buffer (Bytes, BytesMut) is a sequence of 0..255.                *)
(***************************************************************************)
EXTENDS Integers, Sequences, FiniteSets, TLC

\* ------------------------------------------------------------------------
\* Bounds of the model
\* ------------------------------------------------------------------------
MaxStrLen == 1
MaxVecLen == 2
MaxBufLen == 6
MaxQueries == 2
MaxBacklog == 1
MaxConnections == 2

\* ------------------------------------------------------------------------
\* Integer widths (std: i16, i32, usize -> i16 / i32 casts)
\* ------------------------------------------------------------------------
I16Max == 32767
I32Max == 2147483647

\* `x as i16` of a non-negative length: keeps the low 16 bits, two's complement.
AsI16(n) ==
    LET u == n % 65536 IN IF u > I16Max THEN u - 65536 ELSE u

\* `x as i32` of a non-negative length: keeps the low 32 bits, two's complement.
AsI32(n) ==
    IF n > I32Max THEN ((n - I32Max) - I32Max) - 2 ELSE n

\* BufMut::put_i16: big-endian two's complement.
PutI16(v) ==
    LET u == v % 65536 IN << u \div 256, u % 256 >>

\* BufMut::put_i32: big-endian two's complement (a negative v is the
\* complement of -(v+1), which keeps every intermediate below 2^31).
PutI32(v) ==
    LET w  == IF v < 0 THEN -(v + 1) ELSE v
        b1 == w \div 16777216
        b2 == (w \div 65536) % 256
        b3 == (w \div 256) % 256
        b4 == w % 256
    IN  IF v < 0 THEN << 255 - b1, 255 - b2, 255 - b3, 255 - b4 >>
                 ELSE << b1, b2, b3, b4 >>

\* i16::from_be_bytes
GetI16(b) ==
    LET u == b[1] * 256 + b[2] IN IF u > I16Max THEN u - 65536 ELSE u

\* i32::from_be_bytes
GetI32(b) ==
    IF b[1] >= 128
    THEN -((255 - b[1]) * 16777216 + (255 - b[2]) * 65536
           + (255 - b[3]) * 256 + (255 - b[4])) - 1
    ELSE b[1] * 16777216 + b[2] * 65536 + b[3] * 256 + b[4]

Drop(buf, n) == SubSeq(buf, n + 1, Len(buf))

\* anyhow::Result of a deserialization, with the buffer as the call left it.
Ok(v, rest)  == [ok |-> TRUE,  val |-> v,    err |-> "",  rest |-> rest]
Err(e, rest) == [ok |-> FALSE, val |-> << >>, err |-> e,  rest |-> rest]

\* ------------------------------------------------------------------------
\* Type descriptors: the impls of libpq_types.rs and the derive macro
\* ------------------------------------------------------------------------
TI8      == [k |-> "i8"]
TI16     == [k |-> "i16"]
TI32     == [k |-> "i32"]
TByte    == [k |-> "Byte"]
TByte4   == [k |-> "Byte4"]
TCString == [k |-> "CString"]
Vec16(T)   == [k |-> "Vec16",   e |-> T]
Vec32(T)   == [k |-> "Vec32",   e |-> T]
VecNull(T) == [k |-> "VecNull", e |-> T]
\* #[derive(SerdeLibpqData)] struct: the fields << name, type >> in
\* declaration order.
Struct(fields) == [k |-> "Struct", f |-> fields]


\* ------------------------------------------------------------------------
\* ByteSized (libpq_types.rs)
\* ------------------------------------------------------------------------
i8_byte_size(v)    == 1
i16_byte_size(v)   == 2
i32_byte_size(v)   == 4
Byte_byte_size(v)  == 1
Byte4_byte_size(v) == 4

CString_byte_size_NoTerminator(v) == AsI32(Len(v))
\* self.count_bytes() as i32 + 1
CString_byte_size(v) == AsI32(Len(v)) + 1

RECURSIVE byte_size(_, _), SumSizes(_, _, _, _), Struct_byte_size(_, _, _)

\* `for elt in &self.0 { size += elt.byte_size() }` over s[lo..hi], summed by
\* halves so that a long vector does not nest the evaluation deeply.
SumSizes(T, s, lo, hi) ==
    IF lo > hi THEN 0
    ELSE IF lo = hi THEN byte_size(T, s[lo])
    ELSE LET mid == (lo + hi) \div 2
         IN  SumSizes(T, s, lo, mid) + SumSizes(T, s, mid + 1, hi)

Vec16_byte_size(T, v)   == 2 + SumSizes(T, v, 1, Len(v))
Vec32_byte_size(T, v)   == 4 + SumSizes(T, v, 1, Len(v))
VecNull_byte_size(T, v) == 1 + SumSizes(T, v, 1, Len(v))

\* derive: `0 #(+ self.#field_name.byte_size())*`
Struct_byte_size(fields, v, i) ==
    IF i > Len(fields) THEN 0
    ELSE byte_size(fields[i][2], v[fields[i][1]]) + Struct_byte_size(fields, v, i + 1)

byte_size(T, v) ==
    CASE T.k = "i8"      -> i8_byte_size(v)
      [] T.k = "i16"     -> i16_byte_size(v)
      [] T.k = "i32"     -> i32_byte_size(v)
      [] T.k = "Byte"    -> Byte_byte_size(v)
      [] T.k = "Byte4"   -> Byte4_byte_size(v)
      [] T.k = "CString" -> CString_byte_size(v)
      [] T.k = "Vec16"   -> Vec16_byte_size(T.e, v)
      [] T.k = "Vec32"   -> Vec32_byte_size(T.e, v)
      [] T.k = "VecNull" -> VecNull_byte_size(T.e, v)
      [] T.k = "Struct"  -> Struct_byte_size(T.f, v, 1)

\* ------------------------------------------------------------------------
\* Serialize (libpq_types.rs): the bytes appended to the buffer
\* ------------------------------------------------------------------------
i8_serialize(v)    == << v % 256 >>
i16_serialize(v)   == PutI16(v)
i32_serialize(v)   == PutI32(v)
Byte_serialize(v)  == << v >>
Byte4_serialize(v) == v
\* put_slice(self.as_bytes()); put_u8(0)
CString_serialize_NoTerminator(v) == v
CString_serialize(v) == v \o << 0 >>

RECURSIVE serialize(_, _), SerializeElts(_, _, _, _), Struct_serialize(_, _, _)

\* `for elt in &self.0 { elt.serialize(buffer) }` over s[lo..hi], by halves.
SerializeElts(T, s, lo, hi) ==
    IF lo > hi THEN << >>
    ELSE IF lo = hi THEN serialize(T, s[lo])
    ELSE LET mid == (lo + hi) \div 2
         IN  SerializeElts(T, s, lo, mid) \o SerializeElts(T, s, mid + 1, hi)

Vec16_serialize(T, v)   == i16_serialize(AsI16(Len(v))) \o SerializeElts(T, v, 1, Len(v))
Vec32_serialize(T, v)   == i32_serialize(AsI32(Len(v))) \o SerializeElts(T, v, 1, Len(v))
VecNull_serialize(T, v) == SerializeElts(T, v, 1, Len(v)) \o << 0 >>

\* derive: `#(self.#field_name.serialize(buffer);)*`
Struct_serialize(fields, v, i) ==
    IF i > Len(fields) THEN << >>
    ELSE serialize(fields[i][2], v[fields[i][1]]) \o Struct_serialize(fields, v, i + 1)

serialize(T, v) ==
    CASE T.k = "i8"      -> i8_serialize(v)
      [] T.k = "i16"     -> i16_serialize(v)
      [] T.k = "i32"     -> i32_serialize(v)
      [] T.k = "Byte"    -> Byte_serialize(v)
      [] T.k = "Byte4"   -> Byte4_serialize(v)
      [] T.k = "CString" -> CString_serialize(v)
      [] T.k = "Vec16"   -> Vec16_serialize(T.e, v)
      [] T.k = "Vec32"   -> Vec32_serialize(T.e, v)
      [] T.k = "VecNull" -> VecNull_serialize(T.e, v)
      [] T.k = "Struct"  -> Struct_serialize(T.f, v, 1)

\* ------------------------------------------------------------------------
\* Deserialize (libpq_types.rs): Ok(value) or Err, and the buffer left
\* ------------------------------------------------------------------------
\* Buf::try_get_*: an error, nothing consumed, when too few bytes remain.
i8_deserialize(buf) ==
    IF Len(buf) < 1 THEN Err("TryGetError", buf)
    ELSE Ok(IF buf[1] >= 128 THEN buf[1] - 256 ELSE buf[1], Drop(buf, 1))
i16_deserialize(buf) ==
    IF Len(buf) < 2 THEN Err("TryGetError", buf) ELSE Ok(GetI16(buf), Drop(buf, 2))
i32_deserialize(buf) ==
    IF Len(buf) < 4 THEN Err("TryGetError", buf) ELSE Ok(GetI32(buf), Drop(buf, 4))
Byte_deserialize(buf) ==
    IF Len(buf) < 1 THEN Err("TryGetError", buf) ELSE Ok(buf[1], Drop(buf, 1))
Byte4_deserialize(buf) ==
    IF Len(buf) < 4 THEN Err("TryGetError", buf) ELSE Ok(SubSeq(buf, 1, 4), Drop(buf, 4))

RECURSIVE CString_loop(_, _)
\* `while c != 0 { v.push(c); c = buffer.try_get_u8()?; }`
CString_loop(buf, v) ==
    IF Len(buf) < 1 THEN Err("TryGetError", buf)
    ELSE IF buf[1] = 0 THEN Ok(v, Drop(buf, 1))
    ELSE CString_loop(Drop(buf, 1), Append(v, buf[1]))

CString_deserialize_KeepTerminator(buf) ==
    LET r == CString_loop(buf, << >>)
    IN  IF r.ok THEN Ok(r.val, << 0 >> \o r.rest) ELSE r
CString_deserialize(buf) == CString_loop(buf, << >>)

RECURSIVE deserialize(_, _), DeserializeN(_, _, _, _), VecNull_loop(_, _, _),
          Struct_deserialize(_, _, _, _)

\* `for _ in 0..len { v.0.push(T::deserialize(buffer)?) }`
DeserializeN(T, n, buf, v) ==
    IF n <= 0 THEN Ok(v, buf)
    ELSE LET r == deserialize(T, buf)
         IN  IF r.ok THEN DeserializeN(T, n - 1, r.rest, Append(v, r.val)) ELSE r

Vec16_deserialize(T, buf) ==
    IF Len(buf) < 2 THEN Err("TryGetError", buf)
    ELSE DeserializeN(T, GetI16(buf), Drop(buf, 2), << >>)

Vec32_deserialize(T, buf) ==
    IF Len(buf) < 4 THEN Err("TryGetError", buf)
    ELSE DeserializeN(T, GetI32(buf), Drop(buf, 4), << >>)

VecNull_loop_AnyTerminator(T, buf, v) ==
    IF Len(buf) = 1
    THEN Ok(v, << >>)
    ELSE IF Len(buf) = 0
    THEN Err("missing null terminator in null terminated vec", buf)
    ELSE LET r == deserialize(T, buf)
         IN  IF r.ok THEN VecNull_loop(T, r.rest, Append(v, r.val)) ELSE r
\* the `loop` of VecNull::deserialize
VecNull_loop(T, buf, v) ==
    IF Len(buf) = 1
    THEN IF buf[1] = 0 THEN Ok(v, << >>)
         ELSE Err("Incorrect terminator in null terminated vec", << >>)
    ELSE IF Len(buf) = 0
    THEN Err("missing null terminator in null terminated vec", buf)
    ELSE LET r == deserialize(T, buf)
         IN  IF r.ok THEN VecNull_loop(T, r.rest, Append(v, r.val)) ELSE r

VecNull_deserialize(T, buf) == VecNull_loop(T, buf, << >>)

\* derive: `Ok(Self { #(#field_name: <#field_type>::deserialize(buffer)?,)* })`
Struct_deserialize(fields, i, buf, v) ==
    IF i > Len(fields) THEN Ok(v, buf)
    ELSE LET r == deserialize(fields[i][2], buf)
         IN  IF r.ok
             THEN Struct_deserialize(fields, i + 1, r.rest, v @@ (fields[i][1] :> r.val))
             ELSE r

deserialize(T, buf) ==
    CASE T.k = "i8"      -> i8_deserialize(buf)
      [] T.k = "i16"     -> i16_deserialize(buf)
      [] T.k = "i32"     -> i32_deserialize(buf)
      [] T.k = "Byte"    -> Byte_deserialize(buf)
      [] T.k = "Byte4"   -> Byte4_deserialize(buf)
      [] T.k = "CString" -> CString_deserialize(buf)
      [] T.k = "Vec16"   -> Vec16_deserialize(T.e, buf)
      [] T.k = "Vec32"   -> Vec32_deserialize(T.e, buf)
      [] T.k = "VecNull" -> VecNull_deserialize(T.e, buf)
      [] T.k = "Struct"  -> Struct_deserialize(T.f, 1, buf, << >>)

\* ------------------------------------------------------------------------
\* Message taxonomy (src/message.rs)
\* ------------------------------------------------------------------------
MessageHeader == Struct(<< << "message_type", TByte >>, << "length", TI32 >> >>)
RequestHeader == Struct(<< << "length", TI32 >> >>)
AuthenticationOk == Struct(<< << "code", TI32 >> >>)
AuthenticationMD5Password == Struct(<< << "code", TI32 >>, << "salt", TByte4 >> >>)
BackendKeyData == Struct(<< << "process_id", TI32 >>, << "secret_key", TI32 >> >>)
CommandComplete == Struct(<< << "command_tag", TCString >> >>)
ColumnData == Vec32(TByte)
DataRow == Struct(<< << "columns", Vec16(ColumnData) >> >>)
ErrorMessage == Struct(<< << "code", TByte >>, << "message", TCString >> >>)
ErrorResponse == Struct(<< << "messages", VecNull(ErrorMessage) >> >>)
ParameterStatus == Struct(<< << "name", TCString >>, << "value", TCString >> >>)
PasswordMessage == Struct(<< << "password", TCString >> >>)
Query == Struct(<< << "query", TCString >> >>)
ReadyForQuery == Struct(<< << "transaction_indicator", TByte >> >>)
ColumnDescription ==
    Struct(<< << "name", TCString >>, << "relation_id", TI32 >>,
              << "attribute_id", TI16 >>, << "datatype_id", TI32 >>,
              << "datatype_len", TI16 >>, << "datatype_mod", TI32 >>,
              << "format", TI16 >> >>)
RowDescription == Struct(<< << "columns", Vec16(ColumnDescription) >> >>)
ProtocolVersion == Struct(<< << "major", TI16 >>, << "minor", TI16 >> >>)
StartupMessage ==
    Struct(<< << "protocol_version", ProtocolVersion >>,
              << "parameters", VecNull(ParameterStatus) >> >>)
\* the struct of the derive macro's tests
AllTypes ==
    Struct(<< << "byte", TByte >>, << "byte4", TByte4 >>, << "int_16", TI16 >>,
              << "int_32", TI32 >>, << "cstring", TCString >>,
              << "vec16_cstring", Vec16(TCString) >>, << "vec32_bytes", Vec32(TByte) >> >>)

\* The type a name of the model stands for.
TypeOf(name) ==
    CASE name = "AuthenticationOk"          -> AuthenticationOk
      [] name = "AuthenticationMD5Password" -> AuthenticationMD5Password
      [] name = "BackendKeyData"            -> BackendKeyData
      [] name = "CommandComplete"           -> CommandComplete
      [] name = "DataRow"                   -> DataRow
      [] name = "ErrorResponse"             -> ErrorResponse
      [] name = "ParameterStatus"           -> ParameterStatus
      [] name = "PasswordMessage"           -> PasswordMessage
      [] name = "Query"                     -> Query
      [] name = "ReadyForQuery"             -> ReadyForQuery
      [] name = "RowDescription"            -> RowDescription
      [] name = "StartupMessage"            -> StartupMessage
      [] name = "MessageHeader"             -> MessageHeader
      [] name = "AllTypes"                  -> AllTypes
      [] name = "CString"                   -> TCString
      [] name = "VecNull<Byte>"             -> VecNull(TByte)
      [] name = "VecNull<i32>"              -> VecNull(TI32)
      [] name = "VecNull<CString>"          -> VecNull(TCString)
      [] name = "VecNull<ErrorMessage>"     -> VecNull(ErrorMessage)

\* #[message_body(kind = '..')]: MessageBody::message_type
message_type(name) ==
    CASE name \in {"AuthenticationOk", "AuthenticationMD5Password"} -> 82  \* 'R'
      [] name = "BackendKeyData"  -> 75   \* 'K'
      [] name = "CommandComplete" -> 67   \* 'C'
      [] name = "DataRow"         -> 68   \* 'D'
      [] name = "ErrorResponse"   -> 69   \* 'E'
      [] name = "ParameterStatus" -> 83   \* 'S'
      [] name = "PasswordMessage" -> 112  \* 'p'
      [] name = "Query"           -> 81   \* 'Q'
      [] name = "ReadyForQuery"   -> 90   \* 'Z'
      [] name = "RowDescription"  -> 84   \* 'T'

\* the structs that derive MessageBody
MessageBodyNames ==
    {"AuthenticationOk", "AuthenticationMD5Password", "BackendKeyData",
     "CommandComplete", "DataRow", "ErrorResponse", "ParameterStatus",
     "PasswordMessage", "Query", "ReadyForQuery", "RowDescription"}
\* the structs with TryFrom<&mut RawBackendMessage>
BackendNames == MessageBodyNames \ {"PasswordMessage", "Query"}
\* the structs with TryFrom<&mut RawFrontendMessage>
FrontendNames == {"PasswordMessage", "Query"}

\* ------------------------------------------------------------------------
\* Framing (src/message.rs, src/handler/mod.rs)
\* ------------------------------------------------------------------------
new_raw_header_from_body_NoSelf(name, body) ==
    << message_type(name) >> \o PutI32(byte_size(TypeOf(name), body))
\* MessageHeader::new_raw_header_from_body: put_u8(message_type), put_i32(byte_size + 4)
new_raw_header_from_body(name, body) ==
    << message_type(name) >> \o PutI32(byte_size(TypeOf(name), body) + 4)

\* LibPqWriter::put_message: the buffer handed to self.write
put_message(name, msg) ==
    new_raw_header_from_body(name, msg) \o serialize(TypeOf(name), msg)

\* LibPqWriter::put_request: the buffer handed to self.write
put_request(name, msg) ==
    PutI32(byte_size(TypeOf(name), msg) + 4) \o serialize(TypeOf(name), msg)

\* BufWriter::new: the capacity of the buffer (std's default)
BufWriterCapacity == 8192

\* what the transport's write may return for a buffer handed to it directly:
\* Ok(n) with 1 <= n <= len
TransportAccepts(buffer) ==
    {n \in {1, Len(buffer) \div 2, Len(buffer)} : n >= 1} \cup {Len(buffer)}

\* `self.write(&buffer)?` on the BufWriter, its return value dropped: a buffer
\* below the capacity is copied whole into the BufWriter; a larger one is
\* handed to the transport's write, which takes its first n bytes.
BufWriter_write(buffer, n) ==
    IF Len(buffer) < BufWriterCapacity THEN buffer ELSE SubSeq(buffer, 1, n)

\* RawBackendMessage::get / RawFrontendMessage::get on the bytes the reader
\* still holds: read_exact(5), the header, read_exact(length - 4).  A length
\* below 4 makes `(length - 4) as usize` an allocation no machine grants.
RawMessage_get(stream) ==
    IF Len(stream) < 5 THEN [st |-> "Err", stream |-> << >>]
    ELSE LET header == deserialize(MessageHeader, SubSeq(stream, 1, 5)).val
             n      == header.length - 4
         IN  IF n < 0 THEN [st |-> "panic", stream |-> Drop(stream, 5)]
             ELSE IF Len(stream) - 5 < n THEN [st |-> "Err", stream |-> << >>]
             ELSE [st |-> "Ok", header |-> header,
                   raw_body |-> SubSeq(stream, 6, 5 + n),
                   stream |-> Drop(stream, 5 + n)]

\* BackendMessageKind::try_from(u8).ok(): the kind bytes it knows
BackendMessageKinds ==
    {82, 75, 50, 51, 67, 100, 99, 71, 72, 87, 68, 73, 69, 86, 118, 110, 78, 65,
     116, 83, 49, 115, 90, 84}

\* AuthenticationMessageKind::try_from(i32).ok(): the sub-kinds it knows
AuthenticationMessageKinds == {0, 2, 3, 5, 7, 8, 9, 10, 11, 12}

\* From<&FrontendMessageKind> for u8
FrontendMessageKind_u8(msg_kind) ==
    CASE msg_kind = "Bind"                -> 66    \* 'B'
      [] msg_kind = "Close"               -> 67    \* 'C'
      [] msg_kind = "CopyData"            -> 100   \* 'd'
      [] msg_kind = "CopyDone"            -> 99    \* 'c'
      [] msg_kind = "CopyFail"            -> 102   \* 'f'
      [] msg_kind = "Describe"            -> 68    \* 'D'
      [] msg_kind = "Execute"             -> 69    \* 'E'
      [] msg_kind = "Flush"               -> 70    \* 'F'
      [] msg_kind = "FunctionCall"        -> 72    \* 'H'
      [] msg_kind = "GSSResponse"         -> 112   \* 'p'
      [] msg_kind = "Parse"               -> 80    \* 'P'
      [] msg_kind = "PasswordMessage"     -> 112   \* 'p'
      [] msg_kind = "Query"               -> 81    \* 'Q'
      [] msg_kind = "SASLInitialResponse" -> 112   \* 'p'
      [] msg_kind = "SASLResponse"        -> 112   \* 'p'
      [] msg_kind = "Terminate"           -> 88    \* 'X'

\* TryFrom<u8> for FrontendMessageKind
FrontendMessageKind_try_from(msg_code) ==
    CASE msg_code = 66  -> [ok |-> TRUE, kind |-> "Bind"]
      [] msg_code = 67  -> [ok |-> TRUE, kind |-> "Close"]
      [] msg_code = 100 -> [ok |-> TRUE, kind |-> "CopyData"]
      [] msg_code = 99  -> [ok |-> TRUE, kind |-> "CopyDone"]
      [] msg_code = 102 -> [ok |-> TRUE, kind |-> "CopyFail"]
      [] msg_code = 68  -> [ok |-> TRUE, kind |-> "Describe"]
      [] msg_code = 69  -> [ok |-> TRUE, kind |-> "Execute"]
      [] msg_code = 70  -> [ok |-> TRUE, kind |-> "Flush"]
      [] msg_code = 72  -> [ok |-> TRUE, kind |-> "FunctionCall"]
      [] msg_code = 81  -> [ok |-> TRUE, kind |-> "Query"]
      [] msg_code = 88  -> [ok |-> TRUE, kind |-> "Terminate"]
      [] OTHER          -> [ok |-> FALSE, kind |-> "none"]   \* 'p', 'P', any other

\* RawFrontendMessage::get_message_kind: try_from(message_type).ok()
get_message_kind(raw) ==
    LET kind == FrontendMessageKind_try_from(raw.header.message_type)
    IN  IF kind.ok THEN [st |-> "Some", kind |-> kind.kind]
        ELSE [st |-> "None", kind |-> "none"]

\* RawBackendMessage::get_auth_message_kind: Some(sub-kind), None, or the
\* panic of `self.raw_body[0..4]` on a body shorter than 4 bytes.
get_auth_message_kind(raw) ==
    IF raw.header.message_type = 82
    THEN IF Len(raw.raw_body) < 4 THEN [st |-> "panic", code |-> 0]
         ELSE LET code == GetI32(raw.raw_body)
              IN  IF code \in AuthenticationMessageKinds
                  THEN [st |-> "Some", code |-> code]
                  ELSE [st |-> "None", code |-> 0]
    ELSE [st |-> "None", code |-> 0]

try_from_NoKindCheck(name, raw) ==
    deserialize(TypeOf(name), raw.raw_body)
\* a projection that deserializes first and compares the kind byte afterwards:
\* the body is consumed on a mismatch too
try_from_DeserializeFirst(name, raw) ==
    LET r == deserialize(TypeOf(name), raw.raw_body)
    IN  IF message_type(name) = raw.header.message_type
        THEN r
        ELSE Err("Impossible to create struct", r.rest)
\* TryFrom<&mut RawBackendMessage> / TryFrom<&mut RawFrontendMessage>: the
\* derived impls and the two hand-written ones of the Authentication structs.
\* The result of deserialize, whose `rest` is the raw_body left in the envelope.
try_from(name, raw) ==
    IF name \in {"AuthenticationOk", "AuthenticationMD5Password"}
    THEN IF raw.header.message_type = 82
         THEN LET sub == get_auth_message_kind(raw)
              IN  IF sub.st = "panic"
                  THEN [ok |-> FALSE, val |-> << >>, err |-> "panic", rest |-> raw.raw_body]
                  ELSE IF sub.st = "Some"
                          /\ sub.code = (IF name = "AuthenticationOk" THEN 0 ELSE 5)
                  THEN deserialize(TypeOf(name), raw.raw_body)
                  ELSE Err("Impossible to create struct", raw.raw_body)
         ELSE Err("Impossible to create struct", raw.raw_body)
    ELSE IF message_type(name) = raw.header.message_type
         THEN deserialize(TypeOf(name), raw.raw_body)
         ELSE Err("Impossible to create struct", raw.raw_body)

\* ------------------------------------------------------------------------
\* Constructors (src/message.rs)
\* ------------------------------------------------------------------------
\* PgType: From<&PgType> for i32, typlen, typmod, format
PgTypes == {"Bool", "Int4", "Text", "Oid"}
PgType_oid(t)    == CASE t = "Bool" -> 16 [] t = "Int4" -> 23 [] t = "Text" -> 25 [] t = "Oid" -> 26
PgType_typlen(t) == CASE t = "Bool" -> 1 [] t = "Int4" -> 4 [] t = "Text" -> -1 [] t = "Oid" -> 4
PgType_typmod(t) == -1
PgType_format(t) == IF t = "Text" THEN 1 ELSE 0

\* ColumnDescription::new(name, pgtype), name without a 0 byte
ColumnDescription_new(name, pgtype) ==
    [name |-> name, relation_id |-> 0, attribute_id |-> 0,
     datatype_id |-> PgType_oid(pgtype), datatype_len |-> PgType_typlen(pgtype),
     datatype_mod |-> PgType_typmod(pgtype), format |-> PgType_format(pgtype)]

AuthenticationOk_new == [code |-> 0]
AuthenticationMD5Password_new(salt) == [code |-> 5, salt |-> salt]
\* ReadyForQuery::new(TransactionIndicator::Idle): 'I'
ReadyForQuery_new_Idle == [transaction_indicator |-> 73]

\* ------------------------------------------------------------------------
\* The legacy composer (src/backend.rs, src/bytes.rs)
\* ------------------------------------------------------------------------
\* CString for BytesMut, put_cstring: the bytes of the String, then 0x00
put_cstring(str) == str \o << 0 >>

\* the body of `for col in columns` of compose_row_description, for the
\* columns lo..hi
RECURSIVE ComposeColumns(_, _, _)
ComposeColumns(columns, lo, hi) ==
    IF lo > hi THEN << >>
    ELSE IF lo = hi
    THEN LET col == columns[lo]
         IN  put_cstring(col.name)
                 \o PutI32(col.relation_id) \o PutI16(col.attribute_id)
                 \o PutI32(col.datatype_id) \o PutI16(col.datatype_len)
                 \o PutI32(col.datatype_mod) \o PutI16(col.format)
    ELSE LET mid == (lo + hi) \div 2
         IN  ComposeColumns(columns, lo, mid) \o ComposeColumns(columns, mid + 1, hi)

\* BackendMessage::compose_row_description: i16::try_from(columns.len())?,
\* the columns, then 'T', the length and the body
compose_row_description(columns) ==
    IF Len(columns) > I16Max
    THEN Err("out of range integral type conversion attempted", << >>)
    ELSE LET t2 == PutI16(Len(columns)) \o ComposeColumns(columns, 1, Len(columns))
         IN  Ok(<< 84 >> \o PutI32(4 + AsI32(Len(t2))) \o t2, << >>)

\* BackendMessage::compose_authentication_md5_password: 'R', 12, 5, the salt
compose_authentication_md5_password(salt) ==
    Ok(<< 82 >> \o PutI32(12) \o PutI32(5) \o salt, << >>)

\* BackendMessage::compose_authentication_ok: 'R', 8, 0
compose_authentication_ok ==
    Ok(<< 82 >> \o PutI32(8) \o PutI32(0), << >>)

\* BackendMessage::compose_command_complete of src/backend.rs: 'C',
\* command_tag.len() as i32 + 1 + 4, the tag as a C string
compose_command_complete(command_tag) ==
    Ok(<< 67 >> \o PutI32(AsI32(AsI32(Len(command_tag)) + 1 + 4))
             \o put_cstring(command_tag), << >>)

\* BackendMessage::compose_command_complete of src/main.rs: 'C',
\* command_tag.len() as i32 + 4, the tag as a C string
main_compose_command_complete(command_tag) ==
    Ok(<< 67 >> \o PutI32(AsI32(AsI32(Len(command_tag)) + 4))
             \o put_cstring(command_tag), << >>)

\* BackendMessage::compose_ready_for_query: 'Z', 5, 'I'
compose_ready_for_query ==
    Ok(<< 90 >> \o PutI32(5) \o << 73 >>, << >>)

\* the body of `for col in columns` of compose_data_row: col.len() as i32,
\* then the column as a C string
RECURSIVE ComposeDataColumns(_, _)
ComposeDataColumns(columns, i) ==
    IF i > Len(columns) THEN << >>
    ELSE PutI32(AsI32(Len(columns[i]))) \o put_cstring(columns[i])
             \o ComposeDataColumns(columns, i + 1)

\* BackendMessage::compose_data_row: 'D', the length 5,
\* i16::try_from(columns.len())?, the columns
compose_data_row(columns) ==
    IF Len(columns) > I16Max
    THEN Err("out of range integral type conversion attempted", << >>)
    ELSE Ok(<< 68 >> \o PutI32(5) \o PutI16(Len(columns))
                 \o ComposeDataColumns(columns, 1), << >>)

\* the body of `for msg in messages` of compose_error_response
RECURSIVE ComposeErrorMessages(_, _)
ComposeErrorMessages(messages, i) ==
    IF i > Len(messages) THEN << >>
    ELSE << messages[i].code % 256 >> \o put_cstring(messages[i].message)
             \o ComposeErrorMessages(messages, i + 1)

\* BackendMessage::compose_error_response: the messages and 0x00, then 'E',
\* the length and the body
compose_error_response(messages) ==
    LET t2 == ComposeErrorMessages(messages, 1) \o << 0 >>
    IN  Ok(<< 69 >> \o PutI32(AsI32(4 + AsI32(Len(t2)))) \o t2, << >>)

\* BackendMessage::compose_parameter_status: the two C strings, then 'S', the
\* length and the body
compose_parameter_status(parameter, value) ==
    LET t2 == put_cstring(parameter) \o put_cstring(value)
    IN  Ok(<< 83 >> \o PutI32(AsI32(4 + AsI32(Len(t2)))) \o t2, << >>)

\* BackendMessage::compose of src/backend.rs
BackendMessage_compose(m) ==
    CASE m.variant = "AuthenticationMD5Password" ->
            compose_authentication_md5_password(m.salt)
      [] m.variant = "AuthenticationOk" -> compose_authentication_ok
      [] m.variant = "CommmandComplete" -> compose_command_complete(m.command_tag)
      [] m.variant = "DataRow" -> compose_data_row(m.columns)
      [] m.variant = "ReadyForQuery" -> compose_ready_for_query
      [] m.variant = "RowDescription" -> compose_row_description(m.columns)
      [] m.variant = "ErrorResponse" -> compose_error_response(m.messages)
      [] m.variant = "ParameterStatus" ->
            compose_parameter_status(m.parameter, m.value)

\* the variants of BackendMessage in src/main.rs
MainVariants ==
    {"AuthenticationMD5Password", "AuthenticationOk", "CommmandComplete", "ReadyForQuery"}

\* BackendMessage::compose of src/main.rs
main_BackendMessage_compose(m) ==
    CASE m.variant = "AuthenticationMD5Password" ->
            compose_authentication_md5_password(m.salt)
      [] m.variant = "AuthenticationOk" -> compose_authentication_ok
      [] m.variant = "CommmandComplete" -> main_compose_command_complete(m.command_tag)
      [] m.variant = "ReadyForQuery" -> compose_ready_for_query

\* ------------------------------------------------------------------------
\* The MD5 password (src/message.rs)
\* ------------------------------------------------------------------------
RECURSIVE WeightedSum(_, _)
WeightedSum(bytes, i) ==
    IF i > Len(bytes) THEN 0 ELSE i * bytes[i] + WeightedSum(bytes, i + 1)
\* Md5::new(), update(bytes), finalize(): the 16 bytes of the digest.  MD5 is
\* abstracted to a hash that depends on every byte hashed and on its place.
Md5(bytes) ==
    [i \in 1..16 |-> (WeightedSum(bytes, 1) + i * (Len(bytes) + 1)) % 256]
\* one lower-case hexadecimal digit
HexDigit(d) == IF d < 10 THEN 48 + d ELSE 87 + d
\* format!("{hash:x}"): two lower-case hexadecimal digits for each byte
LowerHex(hash) ==
    [i \in 1..(2 * Len(hash)) |->
        IF i % 2 = 1 THEN HexDigit(hash[(i + 1) \div 2] \div 16)
        ELSE HexDigit(hash[i \div 2] % 16)]

PasswordMessage_new_from_user_password_UserFirst(user, password, salt) ==
    [password |-> << 109, 100, 53 >> \o LowerHex(Md5(LowerHex(Md5(user \o password)) \o salt))]
\* PasswordMessage::new_from_user_password: update(password), update(user),
\* finalize; update(format!("{hash:x}")), update(salt), finalize;
\* format!("md5{hash:x}")
PasswordMessage_new_from_user_password(user, password, salt) ==
    LET inner == Md5(password \o user)
        outer == Md5(LowerHex(inner) \o salt)
    IN  [password |-> << 109, 100, 53 >> \o LowerHex(outer)]

\* ------------------------------------------------------------------------
\* Input domains of the codec
\* ------------------------------------------------------------------------
StrBytes    == {65}
ByteValues  == {0, 255}
I8Values    == {-1, 5}
I16Values   == {-2, 258}
I32Values   == {-1, 16909060}
Byte4Values == {<< 1, 2, 3, 4 >>}
BufBytes    == {0, 1, 255}

SeqsUpTo(S, n) == UNION {[1..m -> S] : m \in 0..n}

\* CString values: no 0 byte (CString::new refuses one)
CStrings == SeqsUpTo(StrBytes, MaxStrLen)

RECURSIVE Values(_), StructValues(_, _)
StructValues(fields, i) ==
    IF i = 0 THEN {<< >>}
    ELSE {r @@ (fields[i][1] :> v) :
            r \in StructValues(fields, i - 1), v \in Values(fields[i][2])}
\* the values of a type within the bounds
Values(T) ==
    CASE T.k = "i8"      -> I8Values
      [] T.k = "i16"     -> I16Values
      [] T.k = "i32"     -> I32Values
      [] T.k = "Byte"    -> ByteValues
      [] T.k = "Byte4"   -> Byte4Values
      [] T.k = "CString" -> CStrings
      [] T.k \in {"Vec16", "Vec32", "VecNull"} -> SeqsUpTo(Values(T.e), MaxVecLen)
      [] T.k = "Struct"  -> StructValues(T.f, Len(T.f))

\* a DataRow of I16Max + 1 empty columns: the first length a 16-bit count
\* cannot hold
LongDataRow == [columns |-> [i \in 1..(I16Max + 1) |-> << >>]]

\* the values of a named type the codec is exercised on
ValuesOf(name) ==
    CASE name = "RowDescription" ->
            {[columns |-> c] :
               c \in SeqsUpTo({ColumnDescription_new(n, t) : n \in CStrings, t \in PgTypes},
                              MaxVecLen)}
      [] name = "DataRow" -> Values(DataRow) \cup {LongDataRow}
      [] OTHER -> Values(TypeOf(name))

ValueTypeNames ==
    MessageBodyNames \cup {"StartupMessage", "MessageHeader", "AllTypes", "CString"}
ByteTypeNames ==
    {"CString", "VecNull<Byte>", "VecNull<i32>", "VecNull<CString>",
     "VecNull<ErrorMessage>", "StartupMessage"}

\* raw input buffers
SeedBuffers ==
    {<< 0, 0, 0, 5, 1, 2, 3, 4 >>, << 0, 0, 0, 5, 1, 2, 3 >>, << 0, 0, 0, 5, 1, 2, 3, 4, 0 >>}
Buffers == SeqsUpTo(BufBytes, MaxBufLen) \cup SeedBuffers
\* kind bytes of the frames read: R Z D E Q C K
FrameKinds == {82, 90, 68, 69, 81, 67, 75}

\* a column of a table, its seven fields all different
TableColumn ==
    [name |-> << 65 >>, relation_id |-> 16384, attribute_id |-> 2, datatype_id |-> 25,
     datatype_len |-> -1, datatype_mod |-> -2, format |-> 1]
\* the column lists given to both composers of RowDescription, each written
\* as columns.repeat(times): the lists within the bounds, and one column
\* I16Max + 1 times, the first number of columns a 16-bit count cannot hold
ColumnLists ==
    {[columns |-> l, times |-> 1] :
        l \in SeqsUpTo({ColumnDescription_new(n, t) : n \in CStrings, t \in PgTypes}
                           \cup {TableColumn},
                       MaxVecLen)}
    \cup {[columns |-> << ColumnDescription_new(<< >>, "Text") >>, times |-> I16Max + 1]}
\* the column list written as columns.repeat(times)
ColumnListOf(v) ==
    [i \in 1..(Len(v.columns) * v.times) |-> v.columns[((i - 1) % Len(v.columns)) + 1]]

\* users, passwords and salts new_from_user_password is applied to
UserPasswordInputs ==
    [user : {<< 97 >>, << 98, 97 >>}, password : {<< 97 >>, << 98, 97 >>},
     salt : {<< 1, 2, 3, 4 >>, << 4, 3, 2, 1 >>}]

\* "SELECT 1", the command tag of the composers' tests
Select1 == << 83, 69, 76, 69, 67, 84, 32, 49 >>
\* the messages given to BackendMessage::compose (src/backend.rs); the
\* column lists of its RowDescription variant are ColumnLists
LegacyMessages ==
    {[variant |-> "AuthenticationMD5Password", salt |-> salt] : salt \in Byte4Values}
    \cup {[variant |-> "AuthenticationOk"], [variant |-> "ReadyForQuery"]}
    \cup {[variant |-> "CommmandComplete", command_tag |-> t] :
             t \in CStrings \cup {Select1}}
    \cup {[variant |-> "DataRow", columns |-> c] : c \in SeqsUpTo(CStrings, MaxVecLen)}
    \cup {[variant |-> "ErrorResponse", messages |-> e] :
             e \in SeqsUpTo({[code |-> 77, message |-> t] : t \in CStrings}, MaxVecLen)}
    \cup {[variant |-> "ParameterStatus", parameter |-> n, value |-> v] :
             n \in CStrings, v \in CStrings}

\* the kinds of FrontendMessageKind
FrontendMessageKinds ==
    {"Bind", "Close", "CopyData", "CopyDone", "CopyFail", "Describe", "Execute",
     "Flush", "FunctionCall", "GSSResponse", "Parse", "PasswordMessage", "Query",
     "SASLInitialResponse", "SASLResponse", "Terminate"}
\* kind bytes of the frames on a raw stream: B C d c f D E F H P Q X p, R, and
\* two bytes no side uses
StreamKinds == {66, 67, 100, 99, 102, 68, 69, 70, 72, 80, 81, 88, 112, 82, 0, 255}
StreamBodies ==
    {<< >>, << 0, 0 >>, << 0, 0, 0, 0 >>, << 0, 0, 0, 1 >>, << 0, 0, 0, 5, 1, 2, 3, 4 >>}

\* ------------------------------------------------------------------------
\* Requests (src/message.rs)
\* ------------------------------------------------------------------------
\* RequestMessageKind::try_from(i32): the request codes
StartupMessageCode == 196608
CancelRequestCode  == 80877102
SSLRequestCode     == 80877103
GSSENCRequestCode  == 80877104
RequestCodes == {StartupMessageCode, CancelRequestCode, SSLRequestCode, GSSENCRequestCode}

RequestMessageKind_try_from_AnyMinor(request_code) ==
    CASE request_code \div 65536 = 3          -> [ok |-> TRUE, kind |-> "StartupMessage"]
      [] request_code = CancelRequestCode     -> [ok |-> TRUE, kind |-> "CancelRequest"]
      [] request_code = GSSENCRequestCode     -> [ok |-> TRUE, kind |-> "GSSENCRequest"]
      [] request_code = SSLRequestCode        -> [ok |-> TRUE, kind |-> "SSLRequest"]
      [] OTHER                                -> [ok |-> FALSE, kind |-> "none"]
\* TryFrom<i32> for RequestMessageKind
RequestMessageKind_try_from(request_code) ==
    CASE request_code = StartupMessageCode    -> [ok |-> TRUE, kind |-> "StartupMessage"]
      [] request_code = CancelRequestCode     -> [ok |-> TRUE, kind |-> "CancelRequest"]
      [] request_code = GSSENCRequestCode     -> [ok |-> TRUE, kind |-> "GSSENCRequest"]
      [] request_code = SSLRequestCode        -> [ok |-> TRUE, kind |-> "SSLRequest"]
      [] OTHER                                -> [ok |-> FALSE, kind |-> "none"]

\* RawRequest::get on the bytes the reader still holds: read_exact(4), the
\* length, read_exact(length - 4), then the request code in raw_body[0..4].
RawRequest_get(stream) ==
    IF Len(stream) < 4 THEN [st |-> "Err"]
    ELSE LET length == GetI32(stream)
             n      == length - 4
         IN  IF n < 0 THEN [st |-> "panic"]
             ELSE IF Len(stream) - 4 < n THEN [st |-> "Err"]
             ELSE IF n < 4 THEN [st |-> "panic"]
             ELSE LET raw_body     == SubSeq(stream, 5, 4 + n)
                      request_kind == RequestMessageKind_try_from(GetI32(raw_body))
                  IN  IF request_kind.ok
                      THEN [st |-> "Ok", header |-> [length |-> length],
                            request_kind |-> request_kind.kind, raw_body |-> raw_body]
                      ELSE [st |-> "Err"]

\* request codes a client may send: the four requests, no code, and the
\* protocol version 3.1
RequestCodeInputs == RequestCodes \cup {0, StartupMessageCode + 1}

\* raw streams handed to the three get(): arbitrary bytes, whole frames of
\* every kind, whole requests of every code, a frame and a request whose
\* declared length is 3, a request whose body is 2 bytes long, and a request
\* cut short
Streams ==
    Buffers
    \cup {<< kind >> \o PutI32(4 + Len(body)) \o body :
             kind \in StreamKinds, body \in StreamBodies}
    \cup {PutI32(8 + Len(tail)) \o PutI32(code) \o tail :
             code \in RequestCodeInputs, tail \in {<< >>, << 0 >>}}
    \cup {<< 82 >> \o PutI32(3), PutI32(3), PutI32(6) \o << 0, 3 >>,
          PutI32(12) \o PutI32(StartupMessageCode)}

\* TryFrom<&mut RawRequest> for StartupMessage
StartupMessage_try_from(request) ==
    IF request.request_kind = "StartupMessage"
    THEN deserialize(StartupMessage, request.raw_body)
    ELSE Err("Impossible to create StarupMessage from RawRequest", request.raw_body)

\* ------------------------------------------------------------------------
\* Strings (std): String::from_utf8 inside CString::into_string, and
\* CString::new
\* ------------------------------------------------------------------------
IsCont(b) == b >= 128 /\ b <= 191

RECURSIVE IsUtf8From(_, _)
\* the bytes s[i..] are well-formed UTF-8
IsUtf8From(s, i) ==
    IF i > Len(s) THEN TRUE
    ELSE LET b    == s[i]
             has(n) == i + n <= Len(s)
         IN  IF b < 128 THEN IsUtf8From(s, i + 1)
             ELSE IF b >= 194 /\ b <= 223
             THEN has(1) /\ IsCont(s[i + 1]) /\ IsUtf8From(s, i + 2)
             ELSE IF b >= 224 /\ b <= 239
             THEN /\ has(2) /\ IsCont(s[i + 1]) /\ IsCont(s[i + 2])
                  /\ (b = 224 => s[i + 1] >= 160)
                  /\ (b = 237 => s[i + 1] <= 159)
                  /\ IsUtf8From(s, i + 3)
             ELSE IF b >= 240 /\ b <= 244
             THEN /\ has(3) /\ IsCont(s[i + 1]) /\ IsCont(s[i + 2]) /\ IsCont(s[i + 3])
                  /\ (b = 240 => s[i + 1] >= 144)
                  /\ (b = 244 => s[i + 1] <= 143)
                  /\ IsUtf8From(s, i + 4)
             ELSE FALSE

\* CString::into_string succeeds
into_string_ok(cstring) == IsUtf8From(cstring, 1)

\* CString::new(&s[..]) succeeds: no interior 0 byte
CString_new_ok(s) == \A i \in 1..Len(s) : s[i] # 0

\* ------------------------------------------------------------------------
\* Server handlers (src/handler/server.rs)
\* ------------------------------------------------------------------------
\* the salt of md5_authentication_handler
Salt == << 1, 2, 3, 4 >>
\* "server_version", "0.1 (fakepostmaster)"
ServerVersionName ==
    << 115, 101, 114, 118, 101, 114, 95, 118, 101, 114, 115, 105, 111, 110 >>
ServerVersionValue ==
    << 48, 46, 49, 32, 40, 102, 97, 107, 101, 112, 111, 115, 116, 109, 97, 115, 116,
       101, 114, 41 >>
\* "Incorrect password or user"
IncorrectPasswordOrUser ==
    << 73, 110, 99, 111, 114, 114, 101, 99, 116, 32, 112, 97, 115, 115, 119, 111,
       114, 100, 32, 111, 114, 32, 117, 115, 101, 114 >>

Outcome_NoFlush(ret, put, flushed) == [ret |-> ret, put |-> put, flushed |-> FALSE]
\* What one call of a handler did: its return, the frames it put into the
\* BufWriter in order, and whether its last put was put_message_and_flush.
\* Every frame of the bounded inputs is shorter than BufWriterCapacity, so
\* the BufWriter takes it whole (BufWriter_write).
Outcome(ret, put, flushed) == [ret |-> ret, put |-> put, flushed |-> flushed]

\* a handler whose AuthenticationMD5Password is put and not flushed
md5_authentication_startup_NoFlush(stream) ==
    LET request == RawRequest_get(stream)
    IN  IF request.st # "Ok"
        THEN [out |-> Outcome(request.st, << >>, FALSE), parameters |-> << >>]
        ELSE LET startup == StartupMessage_try_from(request)
             IN  IF ~startup.ok
                 THEN [out |-> Outcome("Err", << >>, FALSE), parameters |-> << >>]
                 ELSE [out |-> Outcome("Continue",
                                       << put_message("AuthenticationMD5Password",
                                                      AuthenticationMD5Password_new(Salt)) >>,
                                       FALSE),
                       parameters |-> startup.val.parameters]
\* md5_authentication_handler up to its second read: RawRequest::get,
\* StartupMessage::try_from, put_message_and_flush(AuthenticationMD5Password).
md5_authentication_startup(stream) ==
    LET request == RawRequest_get(stream)
    IN  IF request.st # "Ok"
        THEN [out |-> Outcome(request.st, << >>, FALSE), parameters |-> << >>]
        ELSE LET startup == StartupMessage_try_from(request)
             IN  IF ~startup.ok
                 THEN [out |-> Outcome("Err", << >>, FALSE), parameters |-> << >>]
                 ELSE [out |-> Outcome("Continue",
                                       << put_message("AuthenticationMD5Password",
                                                      AuthenticationMD5Password_new(Salt)) >>,
                                       TRUE),
                       parameters |-> startup.val.parameters]

AuthSuccessFrames_NoParameterStatus ==
    << put_message("AuthenticationOk", AuthenticationOk_new),
       put_message("ReadyForQuery", ReadyForQuery_new_Idle) >>
\* the frames put when auth_function() is true
AuthSuccessFrames ==
    << put_message("AuthenticationOk", AuthenticationOk_new),
       put_message("ParameterStatus",
                   [name |-> ServerVersionName, value |-> ServerVersionValue]),
       put_message("ReadyForQuery", ReadyForQuery_new_Idle) >>

AuthFailureFrames_WithReady ==
    << put_message("ErrorResponse",
                   [messages |-> << [code |-> 77, message |-> IncorrectPasswordOrUser] >>]),
       put_message("ReadyForQuery", ReadyForQuery_new_Idle) >>
\* the frame put when auth_function() is false: ErrorMessage::new('M', ..)
AuthFailureFrames ==
    << put_message("ErrorResponse",
                   [messages |-> << [code |-> 77, message |-> IncorrectPasswordOrUser] >>]) >>

\* a handler that answers a refusal with the ErrorResponse and returns Ok
md5_authentication_password_OkAfterRefusal(stream, auth_result) ==
    LET raw_message == RawMessage_get(stream)
    IN  IF raw_message.st # "Ok"
        THEN [out |-> Outcome(raw_message.st, << >>, FALSE), called |-> FALSE]
        ELSE IF ~try_from("PasswordMessage", raw_message).ok
        THEN [out |-> Outcome("Err", << >>, FALSE), called |-> FALSE]
        ELSE IF auth_result
        THEN [out |-> Outcome("Ok", AuthSuccessFrames, TRUE), called |-> TRUE]
        ELSE [out |-> Outcome("Ok", AuthFailureFrames, TRUE), called |-> TRUE]
md5_authentication_password_CheckPassword(stream, auth_result) ==
    LET raw_message == RawMessage_get(stream)
    IN  IF raw_message.st # "Ok"
        THEN [out |-> Outcome(raw_message.st, << >>, FALSE), called |-> FALSE]
        ELSE IF ~try_from("PasswordMessage", raw_message).ok
        THEN [out |-> Outcome("Err", << >>, FALSE), called |-> FALSE]
        ELSE IF auth_result /\ try_from("PasswordMessage", raw_message).val.password # << >>
        THEN [out |-> Outcome("Ok", AuthSuccessFrames, TRUE), called |-> TRUE]
        ELSE [out |-> Outcome("Err", AuthFailureFrames, TRUE), called |-> TRUE]
\* md5_authentication_handler from its second read on: the PasswordMessage,
\* auth_function(), and the answer.  `auth_result` is what auth_function returns
\* when called.
md5_authentication_password(stream, auth_result) ==
    LET raw_message == RawMessage_get(stream)
    IN  IF raw_message.st # "Ok"
        THEN [out |-> Outcome(raw_message.st, << >>, FALSE), called |-> FALSE]
        ELSE IF ~try_from("PasswordMessage", raw_message).ok
        THEN [out |-> Outcome("Err", << >>, FALSE), called |-> FALSE]
        ELSE IF auth_result
        THEN [out |-> Outcome("Ok", AuthSuccessFrames, TRUE), called |-> TRUE]
        ELSE [out |-> Outcome("Err", AuthFailureFrames, TRUE), called |-> TRUE]

QueryFrames_TagFirst(exec) ==
    << put_message("CommandComplete", [command_tag |-> exec.command_tag]),
       put_message("RowDescription", [columns |-> exec.column_desc]) >>
    \o (IF Len(exec.column_data) > 0
        THEN << put_message("DataRow", [columns |-> exec.column_data]) >>
        ELSE << >>)
    \o << put_message("ReadyForQuery", ReadyForQuery_new_Idle) >>
\* the frames simple_query_handler puts when every step succeeds
QueryFrames(exec) ==
    << put_message("RowDescription", [columns |-> exec.column_desc]) >>
    \o (IF Len(exec.column_data) > 0
        THEN << put_message("DataRow", [columns |-> exec.column_data]) >>
        ELSE << >>)
    \o << put_message("CommandComplete", [command_tag |-> exec.command_tag]),
          put_message("ReadyForQuery", ReadyForQuery_new_Idle) >>

\* simple_query_handler up to the executor's call: the frame read, the Query
\* projected, its text made a String.  "Continue": the executor is called.
simple_query_read(stream) ==
    LET raw_message == RawMessage_get(stream)
    IN  IF raw_message.st # "Ok"
        THEN [ret |-> raw_message.st, accepted |-> FALSE]
        ELSE LET query_message == try_from("Query", raw_message)
             IN  IF ~query_message.ok
                 THEN [ret |-> "Err", accepted |-> FALSE]
                 ELSE IF ~into_string_ok(query_message.val.query)
                 THEN [ret |-> "Err", accepted |-> TRUE]
                 ELSE [ret |-> "Continue", accepted |-> TRUE]

\* simple_query_handler: `exec` is what the executor returns when called.
simple_query_handler(stream, exec) ==
    LET read == simple_query_read(stream)
    IN  IF read.ret # "Continue"
        THEN [out |-> Outcome(read.ret, << >>, FALSE), accepted |-> read.accepted,
              executed |-> FALSE]
        ELSE IF ~CString_new_ok(exec.command_tag)
        THEN \* RowDescription and DataRow are put before
             \* CommandComplete::new fails
             [out |-> Outcome("Err",
                              SubSeq(QueryFrames(exec), 1, Len(QueryFrames(exec)) - 2),
                              FALSE),
              accepted |-> TRUE, executed |-> TRUE]
        ELSE [out |-> Outcome("Ok", QueryFrames(exec), TRUE),
              accepted |-> TRUE, executed |-> TRUE]

\* ------------------------------------------------------------------------
\* Inputs of a connection
\* ------------------------------------------------------------------------
\* bytes a client may send as its request
StartupParameters ==
    {<< >>, << [name |-> << 65 >>, value |-> << >>] >>}
RequestStreams ==
    {put_request("StartupMessage",
                 [protocol_version |-> [major |-> 3, minor |-> 0], parameters |-> ps]) :
        ps \in StartupParameters}
    \cup {PutI32(8) \o PutI32(SSLRequestCode),      \* SSLRequest
          PutI32(8) \o PutI32(0),                   \* no request code
          PutI32(9) \o PutI32(StartupMessageCode) \o << 65 >>,  \* no terminator
          << >>}                                    \* the client hangs up

\* bytes a client may send as a frame: p, Q or X with a short body, or nothing
FrontendBytes == {0, 65, 255}
FrontendStreams ==
    {<< kind >> \o PutI32(4 + Len(body)) \o body :
        kind \in {112, 81, 88}, body \in SeqsUpTo(FrontendBytes, MaxStrLen + 1)}
    \cup {<< >>}

\* what the executor may return: (column_desc, column_data, command_tag); the
\* tag is a String, which may hold a 0 byte
ExecutorResults ==
    [column_desc  : SeqsUpTo({ColumnDescription_new(<< 65 >>, "Text")}, 1),
     column_data  : {<< >>, << << >> >>, << << 65 >> >>},
     command_tag  : SeqsUpTo({0, 83}, 1)]

\* the executor is not called
NoExecutorCall == [column_desc |-> << >>, column_data |-> << >>, command_tag |-> << >>]

\* what the executor returns to a call of simple_query_handler on `stream`
ExecutorResultsFor(stream) ==
    IF simple_query_read(stream).ret = "Continue"
    THEN ExecutorResults
    ELSE {NoExecutorCall}

\* ------------------------------------------------------------------------
\* State
\* ------------------------------------------------------------------------
VARIABLES
    \* the codec applied to one input
    cmode,      \* "value": a typed value is encoded; "bytes": a buffer is decoded;
                \* "frame": a frame is read off a stream and projected; "stream":
                \* a raw stream is read; "kind": a message kind is converted;
                \* "password": an MD5 password is made; "columns": a column
                \* list is composed as a RowDescription
    cpc,        \* the last operation applied
    ctype,      \* the name of the type (TypeOf)
    cvalue,     \* the typed value encoded
    cbuffer,    \* the buffer: serialize's output, deserialize's input, the stream
    csize,      \* byte_size of cvalue
    cresult,    \* the result of deserialize / try_from
    craw,       \* the raw envelope of RawBackendMessage::get / RawFrontendMessage::get
    cframe,     \* the buffer put_message / put_request composed
    cwritten,   \* the bytes of cframe that self.write(&buffer) took
    \* main of examples/server.rs and the connection it serves
    main,       \* "Running": inside `for stream in listener.incoming()`;
                \* "Returned": main left with an error; "Off": no server runs
    backlog,    \* clients that connected and wait in the listener's queue
    pc,         \* where main is: "Listening" (blocked in incoming()), "Startup"
                \* (connection accepted), "AwaitPassword" (inside
                \* md5_authentication_handler), "ReadyForQuery" (the query
                \* loop), "Closed" (the handler's error left main); "Off" when
                \* no server runs
    tcp_writer, \* frames put into the BufWriter and not flushed yet
    wire,       \* frames flushed to the client, in order
    sm,         \* the parameters of the StartupMessage the handler holds
    connection_parameters,  \* what md5_authentication_handler returned
    auth,       \* the last run of md5_authentication_handler: what it
                \* returned, whether auth_function() was called and its result,
                \* the frames put, the password received
    query,      \* the last call of simple_query_handler
    nqueries,   \* calls of simple_query_handler so far
    recv,       \* the kind byte of the last frame the server read (0: none)
    salts,      \* the salts sent on the connections served so far
    \* one handler of handler/client.rs and its caller
    kpc,        \* where the handler is: "Idle" (no call running), the read it
                \* blocks on ("AwaitAuth", "AwaitAuthOk", "AwaitParams",
                \* "AwaitReady", "AwaitRowDescription", "AwaitDataRow",
                \* "AwaitCommandComplete", "AwaitReadyForQuery"); "Off" when no
                \* client runs
    kcall,      \* the handler called last: "none", "md5_authentication_handler",
                \* "simple_query_handler"
    kret,       \* what that call returned: "None" (running), "Ok", "Err", "panic"
    kerr,       \* the error it returned
    kprev,      \* the error the call before it returned
    kbefore,    \* the bytes the reader held unread when the call began
    kwriter,    \* frames put into the BufWriter and not flushed yet
    ksent,      \* requests and frames flushed to the server, in order
    kstream,    \* the bytes the server sent that the handler has not read
    krecv,      \* the kind bytes of the frames the call read, in order (0: a
                \* read that found no whole frame)
    kdelivered, \* what the server sent in answer to each flush of the call
    kcalls,     \* calls of simple_query_handler so far
    \* the connection between the client and the server, when both run
    c2s,        \* bytes the client flushed that have not reached the server
    s2c,        \* bytes the server flushed that have not reached the client
    tcp_reader  \* bytes that reached the server and its handler has not read

codecVars ==
    << cmode, cpc, ctype, cvalue, cbuffer, csize, cresult, craw, cframe, cwritten >>

serverVars ==
    << main, backlog, pc, tcp_writer, wire, sm, connection_parameters, auth, query, nqueries, recv,
       salts >>

clientVars ==
    << kpc, kcall, kret, kerr, kprev, kbefore, kwriter, ksent, kstream, krecv,
       kdelivered, kcalls >>

pairVars == << c2s, s2c, tcp_reader >>

NoResult == Err("", << >>)
NoRaw == [st |-> "None"]
NoAuth == [ret |-> "None", called |-> FALSE, result |-> FALSE, put |-> << >>,
           flushed |-> FALSE, password |-> << >>]
NoQuery == [ret |-> "None", accepted |-> FALSE, executed |-> FALSE, put |-> << >>,
            flushed |-> FALSE, before |-> << >>, exec |-> NoExecutorCall]

\* the server started: the listener bound, main blocked in incoming()
InitServer ==
    /\ main = "Running"
    /\ backlog = 0
    /\ pc = "Listening"
    /\ tcp_writer = << >>
    /\ wire = << >>
    /\ sm = << >>
    /\ connection_parameters = << >>
    /\ auth = NoAuth
    /\ query = NoQuery
    /\ nqueries = 0
    /\ recv = 0
    /\ salts = << >>

\* no server runs
ServerOff ==
    /\ main = "Off"
    /\ backlog = 0
    /\ pc = "Off"
    /\ tcp_writer = << >>
    /\ wire = << >>
    /\ sm = << >>
    /\ connection_parameters = << >>
    /\ auth = NoAuth
    /\ query = NoQuery
    /\ nqueries = 0
    /\ recv = 0
    /\ salts = << >>

\* TcpHandler::new of handler/client.rs: connected, nothing sent or read
InitClient ==
    /\ kpc = "Idle"
    /\ kcall = "none"
    /\ kret = "None"
    /\ kerr = ""
    /\ kprev = ""
    /\ kbefore = << >>
    /\ kwriter = << >>
    /\ ksent = << >>
    /\ kstream = << >>
    /\ krecv = << >>
    /\ kdelivered = << >>
    /\ kcalls = 0

\* no client runs
ClientOff ==
    /\ kpc = "Off"
    /\ kcall = "none"
    /\ kret = "None"
    /\ kerr = ""
    /\ kprev = ""
    /\ kbefore = << >>
    /\ kwriter = << >>
    /\ ksent = << >>
    /\ kstream = << >>
    /\ krecv = << >>
    /\ kdelivered = << >>
    /\ kcalls = 0

\* a connection on which nothing is in flight
InitChannels ==
    /\ c2s = << >>
    /\ s2c = << >>
    /\ tcp_reader = << >>

\* no codec run
IdleCodec ==
    /\ cmode = "none"
    /\ cpc = "init"
    /\ ctype = "none"
    /\ cvalue = << >>
    /\ cbuffer = << >>
    /\ csize = 0
    /\ cresult = NoResult
    /\ craw = NoRaw
    /\ cframe = << >>
    /\ cwritten = << >>

\* ------------------------------------------------------------------------
\* The codec applied to bounded inputs
\* ------------------------------------------------------------------------
InitValue ==
    /\ cmode = "value"
    /\ \E name \in ValueTypeNames : \E v \in ValuesOf(name) :
          ctype = name /\ cvalue = v
    /\ cbuffer = << >>

InitBytes ==
    /\ cmode = "bytes"
    /\ ctype \in ByteTypeNames
    /\ cvalue = << >>
    /\ cbuffer \in Buffers

\* a stream holding one frame: kind, length = 4 + len(body), body
InitFrame ==
    /\ cmode = "frame"
    /\ ctype \in BackendNames \cup FrontendNames
    /\ cvalue = << >>
    /\ \E kind \in FrameKinds, body \in Buffers :
          cbuffer = << kind >> \o PutI32(4 + Len(body)) \o body

\* a raw stream read by RawRequest::get, RawBackendMessage::get or
\* RawFrontendMessage::get
InitStream ==
    /\ cmode = "stream"
    /\ ctype \in {"RawRequest", "RawBackendMessage", "RawFrontendMessage"}
    /\ cvalue = << >>
    /\ cbuffer \in Streams

\* a FrontendMessageKind converted to its kind byte
InitKind ==
    /\ cmode = "kind"
    /\ ctype = "FrontendMessageKind"
    /\ cvalue \in FrontendMessageKinds
    /\ cbuffer = << >>

\* a column list given to RowDescription::new / put_message and to
\* BackendMessage::RowDescription / compose
InitColumns ==
    /\ cmode = "columns"
    /\ ctype = "RowDescription"
    /\ cvalue \in ColumnLists
    /\ cbuffer = << >>

\* a user, a password and a salt given to new_from_user_password
InitPassword ==
    /\ cmode = "password"
    /\ ctype = "PasswordMessage"
    /\ cvalue \in UserPasswordInputs
    /\ cbuffer = << >>

\* a message of the legacy enum given to BackendMessage::compose, of
\* src/backend.rs or of src/main.rs
InitLegacy ==
    /\ cmode = "legacy"
    /\ \/ ctype = "backend::BackendMessage" /\ cvalue \in LegacyMessages
       \/ /\ ctype = "main::BackendMessage"
          /\ cvalue \in {m \in LegacyMessages : m.variant \in MainVariants}
    /\ cbuffer = << >>

InitCodec ==
    /\ InitServer
    /\ ClientOff
    /\ InitChannels
    /\ \/ InitValue \/ InitBytes \/ InitFrame
       \/ InitStream \/ InitKind \/ InitPassword \/ InitColumns \/ InitLegacy
    /\ cpc = "init"
    /\ csize = 0
    /\ cresult = NoResult
    /\ craw = NoRaw
    /\ cframe = << >>
    /\ cwritten = << >>

\* value.serialize(&mut buffer) and value.byte_size()
CSerialize ==
    /\ cmode = "value" /\ cpc = "init"
    /\ cbuffer' = serialize(TypeOf(ctype), cvalue)
    /\ csize' = byte_size(TypeOf(ctype), cvalue)
    /\ cpc' = "serialized"
    /\ UNCHANGED << cmode, ctype, cvalue, cresult, craw, cframe, cwritten >>
    /\ UNCHANGED << serverVars, clientVars, pairVars >>

\* T::deserialize(&mut buffer), on serialize's output or on a raw buffer
CDeserialize ==
    /\ \/ cmode = "value" /\ cpc = "serialized"
       \/ cmode = "bytes" /\ cpc = "init"
    /\ cresult' = deserialize(TypeOf(ctype), cbuffer)
    /\ cpc' = "deserialized"
    /\ UNCHANGED << cmode, ctype, cvalue, cbuffer, csize, craw, cframe, cwritten >>
    /\ UNCHANGED << serverVars, clientVars, pairVars >>

\* writer.put_message(msg): the buffer composed
CPutMessage ==
    /\ cmode = "value" /\ cpc = "init" /\ ctype \in MessageBodyNames
    /\ cframe' = put_message(ctype, cvalue)
    /\ \E n \in TransportAccepts(put_message(ctype, cvalue)) :
          cwritten' = BufWriter_write(put_message(ctype, cvalue), n)
    /\ csize' = byte_size(TypeOf(ctype), cvalue)
    /\ cpc' = "put_message"
    /\ UNCHANGED << cmode, ctype, cvalue, cbuffer, cresult, craw >>
    /\ UNCHANGED << serverVars, clientVars, pairVars >>

\* writer.put_request(msg): the buffer composed
CPutRequest ==
    /\ cmode = "value" /\ cpc = "init" /\ ctype = "StartupMessage"
    /\ cframe' = put_request(ctype, cvalue)
    /\ \E n \in TransportAccepts(put_request(ctype, cvalue)) :
          cwritten' = BufWriter_write(put_request(ctype, cvalue), n)
    /\ csize' = byte_size(TypeOf(ctype), cvalue)
    /\ cpc' = "put_request"
    /\ UNCHANGED << cmode, ctype, cvalue, cbuffer, cresult, craw >>
    /\ UNCHANGED << serverVars, clientVars, pairVars >>

\* RawBackendMessage::get / RawFrontendMessage::get
CGet ==
    /\ \/ cmode = "frame"
       \/ cmode = "stream" /\ ctype \in {"RawBackendMessage", "RawFrontendMessage"}
    /\ cpc = "init"
    /\ craw' = RawMessage_get(cbuffer)
    /\ cpc' = "get"
    /\ UNCHANGED << cmode, ctype, cvalue, cbuffer, csize, cresult, cframe, cwritten >>
    /\ UNCHANGED << serverVars, clientVars, pairVars >>

\* T::try_from(&mut raw_message)
CTryFrom ==
    /\ cmode = "frame" /\ cpc = "get" /\ craw.st = "Ok"
    /\ cresult' = try_from(ctype, craw)
    /\ cpc' = "try_from"
    /\ UNCHANGED << cmode, ctype, cvalue, cbuffer, csize, craw, cframe, cwritten >>
    /\ UNCHANGED << serverVars, clientVars, pairVars >>

\* the envelope a typed decode leaves behind: `deserialize(&mut
\* message.raw_body)` advances the envelope's own Bytes, the header stays
EnvelopeAfter(raw, result) == [raw EXCEPT !.raw_body = result.rest]

\* the structs that can be projected from the envelope `name` was projected from
SameEnvelopeNames(name) ==
    IF name \in FrontendNames THEN FrontendNames ELSE BackendNames

\* a further T::try_from(&mut raw_message) on the envelope the first one was
\* handed: any struct after an Ok, a struct of the envelope's kind byte after
\* the error of a kind or sub-kind mismatch (as the client does with
\* ParameterStatus and then BackendKeyData). craw becomes the envelope as
\* the first call left it, cvalue keeps the first call's struct and result
CTryFromAgain ==
    /\ cmode = "frame" /\ cpc = "try_from"
    /\ \E name \in SameEnvelopeNames(ctype) :
          /\ \/ cresult.ok
             \/ /\ cresult.err = "Impossible to create struct"
                /\ message_type(name) = craw.header.message_type
          /\ cresult' = try_from(name, EnvelopeAfter(craw, cresult))
          /\ cvalue' = [first |-> ctype, ok |-> cresult.ok, again |-> name]
    /\ craw' = EnvelopeAfter(craw, cresult)
    /\ cpc' = "try_from_again"
    /\ UNCHANGED << cmode, ctype, cbuffer, csize, cframe, cwritten >>
    /\ UNCHANGED << serverVars, clientVars, pairVars >>

\* the decoded message put again
CPutAgain ==
    /\ cmode = "frame" /\ cpc = "try_from" /\ cresult.ok
    /\ cframe' = put_message(ctype, cresult.val)
    /\ \E n \in TransportAccepts(put_message(ctype, cresult.val)) :
          cwritten' = BufWriter_write(put_message(ctype, cresult.val), n)
    /\ csize' = byte_size(TypeOf(ctype), cresult.val)
    /\ cpc' = "put_again"
    /\ UNCHANGED << cmode, ctype, cvalue, cbuffer, cresult, craw >>
    /\ UNCHANGED << serverVars, clientVars, pairVars >>

\* RawRequest::get
CGetRequest ==
    /\ cmode = "stream" /\ ctype = "RawRequest" /\ cpc = "init"
    /\ craw' = RawRequest_get(cbuffer)
    /\ cpc' = "get"
    /\ UNCHANGED << cmode, ctype, cvalue, cbuffer, csize, cresult, cframe, cwritten >>
    /\ UNCHANGED << serverVars, clientVars, pairVars >>

\* StartupMessage::try_from(&mut raw_request)
CStartupTryFrom ==
    /\ cmode = "stream" /\ ctype = "RawRequest" /\ cpc = "get" /\ craw.st = "Ok"
    /\ cresult' = StartupMessage_try_from(craw)
    /\ cpc' = "startup_try_from"
    /\ UNCHANGED << cmode, ctype, cvalue, cbuffer, csize, craw, cframe, cwritten >>
    /\ UNCHANGED << serverVars, clientVars, pairVars >>

\* raw_message.get_auth_message_kind()
CGetAuthMessageKind ==
    /\ cmode = "stream" /\ ctype = "RawBackendMessage" /\ cpc = "get" /\ craw.st = "Ok"
    /\ cresult' = get_auth_message_kind(craw)
    /\ cpc' = "get_auth_message_kind"
    /\ UNCHANGED << cmode, ctype, cvalue, cbuffer, csize, craw, cframe, cwritten >>
    /\ UNCHANGED << serverVars, clientVars, pairVars >>

\* raw_message.get_message_kind() of RawFrontendMessage
CGetMessageKind ==
    /\ cmode = "stream" /\ ctype = "RawFrontendMessage" /\ cpc = "get" /\ craw.st = "Ok"
    /\ cresult' = get_message_kind(craw)
    /\ cpc' = "get_message_kind"
    /\ UNCHANGED << cmode, ctype, cvalue, cbuffer, csize, craw, cframe, cwritten >>
    /\ UNCHANGED << serverVars, clientVars, pairVars >>

\* u8::from(&kind), on a kind of the enum or on the kind get_message_kind gave
CKindByte ==
    /\ \/ /\ cmode = "kind" /\ cpc = "init"
          /\ csize' = FrontendMessageKind_u8(cvalue)
       \/ /\ cmode = "stream" /\ cpc = "get_message_kind" /\ cresult.st = "Some"
          /\ csize' = FrontendMessageKind_u8(cresult.kind)
    /\ cpc' = "u8_from"
    /\ UNCHANGED << cmode, ctype, cvalue, cbuffer, cresult, craw, cframe, cwritten >>
    /\ UNCHANGED << serverVars, clientVars, pairVars >>

\* PasswordMessage::new_from_user_password(&user, &password, &salt)
CNewFromUserPassword ==
    /\ cmode = "password" /\ cpc = "init"
    /\ cresult' = Ok(PasswordMessage_new_from_user_password(
                         cvalue.user, cvalue.password, cvalue.salt), << >>)
    /\ cpc' = "new_from_user_password"
    /\ UNCHANGED << cmode, ctype, cvalue, cbuffer, csize, craw, cframe, cwritten >>
    /\ UNCHANGED << serverVars, clientVars, pairVars >>

\* BackendMessage::RowDescription { columns }.compose()
CComposeRowDescription ==
    /\ cmode = "columns" /\ cpc = "init"
    /\ cresult' = compose_row_description(ColumnListOf(cvalue))
    /\ cpc' = "compose"
    /\ UNCHANGED << cmode, ctype, cvalue, cbuffer, csize, craw, cframe, cwritten >>
    /\ UNCHANGED << serverVars, clientVars, pairVars >>

\* put_message(RowDescription::new(columns)), of the same columns
CPutRowDescription ==
    /\ cmode = "columns" /\ cpc = "compose"
    /\ cframe' = put_message(ctype, [columns |-> ColumnListOf(cvalue)])
    /\ cpc' = "put_row_description"
    /\ UNCHANGED << cmode, ctype, cvalue, cbuffer, csize, cresult, craw, cwritten >>
    /\ UNCHANGED << serverVars, clientVars, pairVars >>

\* the message of src/message.rs that a legacy message stands for, built by
\* its constructor: AuthenticationOk::new(), CommandComplete::new(tag), ..
MessageOf(m) ==
    CASE m.variant = "AuthenticationMD5Password" ->
            [name |-> "AuthenticationMD5Password",
             msg |-> AuthenticationMD5Password_new(m.salt)]
      [] m.variant = "AuthenticationOk" ->
            [name |-> "AuthenticationOk", msg |-> AuthenticationOk_new]
      [] m.variant = "CommmandComplete" ->
            [name |-> "CommandComplete", msg |-> [command_tag |-> m.command_tag]]
      [] m.variant = "ReadyForQuery" ->
            [name |-> "ReadyForQuery", msg |-> ReadyForQuery_new_Idle]
      [] m.variant = "ErrorResponse" ->
            [name |-> "ErrorResponse", msg |-> [messages |-> m.messages]]
      [] m.variant = "ParameterStatus" ->
            [name |-> "ParameterStatus",
             msg |-> [name |-> m.parameter, value |-> m.value]]

\* message.compose(), of src/backend.rs or of src/main.rs
CCompose ==
    /\ cmode = "legacy" /\ cpc = "init"
    /\ cresult' = IF ctype = "main::BackendMessage"
                  THEN main_BackendMessage_compose(cvalue)
                  ELSE BackendMessage_compose(cvalue)
    /\ cpc' = "compose"
    /\ UNCHANGED << cmode, ctype, cvalue, cbuffer, csize, craw, cframe, cwritten >>
    /\ UNCHANGED << serverVars, clientVars, pairVars >>

\* put_message of the same message, built by its constructor of src/message.rs
CPutSame ==
    /\ cmode = "legacy" /\ cpc = "compose" /\ cvalue.variant # "DataRow"
    /\ cframe' = put_message(MessageOf(cvalue).name, MessageOf(cvalue).msg)
    /\ cpc' = "put_same"
    /\ UNCHANGED << cmode, ctype, cvalue, cbuffer, csize, cresult, craw, cwritten >>
    /\ UNCHANGED << serverVars, clientVars, pairVars >>

NextCodec ==
    \/ CCompose
    \/ CPutSame
    \/ CComposeRowDescription
    \/ CPutRowDescription
    \/ CNewFromUserPassword
    \/ CGetRequest
    \/ CStartupTryFrom
    \/ CGetAuthMessageKind
    \/ CGetMessageKind
    \/ CKindByte
    \/ CSerialize
    \/ CDeserialize
    \/ CPutMessage
    \/ CPutRequest
    \/ CGet
    \/ CTryFrom
    \/ CTryFromAgain
    \/ CPutAgain

vars == << codecVars, serverVars, clientVars, pairVars >>

SpecCodec == InitCodec /\ [][NextCodec]_vars

\* ------------------------------------------------------------------------
\* One connection served by examples/server.rs
\* ------------------------------------------------------------------------
\* The handler returned an error (or panicked) to main, which leaves with `?`:
\* the TcpHandler is dropped and BufWriter's drop flushes what is buffered.
Dropped(put) == wire \o tcp_writer \o put

\* the client's side of the connection and the BufWriter after a handler put
\* out.put and went on: put_message leaves the frames in the BufWriter,
\* put_message_and_flush hands everything buffered to the transport
Flushed(out) == IF out.flushed THEN wire \o tcp_writer \o out.put ELSE wire
Buffered(out) == IF out.flushed THEN << >> ELSE tcp_writer \o out.put

\* the kind byte of the frame at the head of a stream (0: the stream is empty)
KindRead(stream) == IF Len(stream) >= 1 THEN stream[1] ELSE 0

\* the salt an AuthenticationMD5Password frame carries
SaltOf(frame) == SubSeq(frame, 10, 13)

\* What the handlers do on each input the client may send: the handler's
\* outcome, with the kind byte of the frame read and the auth predicate's or
\* the executor's return value.
\* the password of the PasswordMessage a stream holds, empty if it holds none
PasswordRead(stream) ==
    LET raw_message == RawMessage_get(stream)
    IN  IF raw_message.st = "Ok" /\ try_from("PasswordMessage", raw_message).ok
        THEN try_from("PasswordMessage", raw_message).val.password
        ELSE << >>
StartupOutcomes ==
    {md5_authentication_startup(stream) : stream \in RequestStreams}
PasswordOutcomes ==
    {[recv |-> KindRead(stream), result |-> result, password |-> PasswordRead(stream),
      r |-> md5_authentication_password(stream, result)] :
        stream \in FrontendStreams, result \in BOOLEAN}
QueryOutcomes ==
    UNION {{[recv |-> KindRead(stream), exec |-> exec,
             r |-> simple_query_handler(stream, exec)] :
               exec \in ExecutorResultsFor(stream)} :
           stream \in FrontendStreams}

\* a client connects: the listener's queue holds the connection until main
\* takes it
Connect ==
    /\ main = "Running"
    /\ backlog < MaxBacklog
    /\ backlog' = backlog + 1
    /\ UNCHANGED << main, pc, tcp_writer, wire, sm, connection_parameters, auth,
                    query, nqueries, recv, salts >>
    /\ UNCHANGED << codecVars, clientVars, pairVars >>

\* `for stream in listener.incoming()`, the arm Ok(stream): main, blocked in
\* incoming(), takes the next connection and makes its TcpHandler
Accept ==
    /\ main = "Running"
    /\ pc = "Listening"
    /\ backlog > 0
    /\ backlog' = backlog - 1
    /\ pc' = "Startup"
    /\ UNCHANGED << main, tcp_writer, wire, sm, connection_parameters, auth, query,
                    nqueries, recv, salts >>
    /\ UNCHANGED << codecVars, clientVars, pairVars >>

\* the arm Err(e): the connection failed, the error is logged and the loop
\* goes to the next connection
AcceptError ==
    /\ main = "Running"
    /\ pc = "Listening"
    /\ backlog > 0
    /\ backlog' = backlog - 1
    /\ UNCHANGED << main, pc, tcp_writer, wire, sm, connection_parameters, auth,
                    query, nqueries, recv, salts >>
    /\ UNCHANGED << codecVars, clientVars, pairVars >>

\* md5_authentication_handler, from the accepted connection to its wait for
\* the PasswordMessage
RecvStartup ==
    /\ pc = "Startup"
    /\ \E r \in StartupOutcomes :
              IF r.out.ret = "Continue"
              THEN /\ pc' = "AwaitPassword"
                   /\ UNCHANGED << main, backlog >>
                   /\ sm' = r.parameters
                   /\ wire' = Flushed(r.out)
                   /\ tcp_writer' = Buffered(r.out)
                   /\ auth' = [auth EXCEPT !.put = r.out.put, !.flushed = r.out.flushed]
                   /\ salts' = Append(salts, SaltOf(r.out.put[1]))
              ELSE /\ pc' = "Closed"
                   /\ main' = "Returned"
                   /\ backlog' = 0
                   /\ sm' = sm
                   /\ wire' = Dropped(r.out.put)
                   /\ tcp_writer' = << >>
                   /\ auth' = [auth EXCEPT !.ret = r.out.ret]
                   /\ salts' = salts
    /\ UNCHANGED << connection_parameters, query, nqueries, recv >>
    /\ UNCHANGED << codecVars, clientVars, pairVars >>

\* md5_authentication_handler, from the PasswordMessage to its return
RecvPassword ==
    /\ pc = "AwaitPassword"
    /\ \E o \in PasswordOutcomes :
          LET r == o.r
          IN  /\ auth' = [ret |-> r.out.ret, called |-> r.called,
                          result |-> r.called /\ o.result,
                          put |-> auth.put \o r.out.put, flushed |-> r.out.flushed,
                          password |-> o.password]
              /\ recv' = o.recv
              /\ IF r.out.ret = "Ok"
                 THEN /\ pc' = "ReadyForQuery"
                      /\ UNCHANGED << main, backlog >>
                      /\ connection_parameters' = sm
                      /\ wire' = Flushed(r.out)
                      /\ tcp_writer' = Buffered(r.out)
                 ELSE /\ pc' = "Closed"
                      /\ main' = "Returned"
                      /\ backlog' = 0
                      /\ connection_parameters' = connection_parameters
                      /\ wire' = Dropped(r.out.put)
                      /\ tcp_writer' = << >>
    /\ UNCHANGED << sm, query, nqueries, salts >>
    /\ UNCHANGED << codecVars, clientVars, pairVars >>

\* one turn of the loop: simple_query_handler(&executor)?
SimpleQuery ==
    /\ pc = "ReadyForQuery"
    /\ nqueries < MaxQueries
    /\ \E o \in QueryOutcomes :
          LET r == o.r
          IN  /\ query' = [ret |-> r.out.ret, accepted |-> r.accepted,
                           executed |-> r.executed, put |-> r.out.put,
                           flushed |-> r.out.flushed, before |-> wire,
                           exec |-> o.exec]
              /\ recv' = o.recv
              /\ IF r.out.ret = "Ok"
                 THEN /\ pc' = "ReadyForQuery"
                      /\ UNCHANGED << main, backlog >>
                      /\ wire' = Flushed(r.out)
                      /\ tcp_writer' = Buffered(r.out)
                 ELSE /\ pc' = "Closed"
                      /\ main' = "Returned"
                      /\ backlog' = 0
                      /\ wire' = Dropped(r.out.put)
                      /\ tcp_writer' = << >>
    /\ nqueries' = nqueries + 1
    /\ UNCHANGED << sm, connection_parameters, auth, salts >>
    /\ UNCHANGED << codecVars, clientVars, pairVars >>

\* main left with the connection's error; the server is started again, with
\* a new listener
Restart ==
    /\ main = "Returned"
    /\ Len(salts) < MaxConnections
    /\ main' = "Running"
    /\ backlog' = 0
    /\ pc' = "Listening"
    /\ tcp_writer' = << >>
    /\ wire' = << >>
    /\ sm' = << >>
    /\ connection_parameters' = << >>
    /\ auth' = NoAuth
    /\ query' = NoQuery
    /\ nqueries' = 0
    /\ recv' = 0
    /\ UNCHANGED salts
    /\ UNCHANGED << codecVars, clientVars, pairVars >>

Init == InitServer /\ ClientOff /\ IdleCodec /\ InitChannels

Next ==
    \/ Connect
    \/ Accept
    \/ AcceptError
    \/ RecvStartup
    \/ RecvPassword
    \/ SimpleQuery
    \/ Restart

Spec == Init /\ [][Next]_vars

\* ------------------------------------------------------------------------
\* Client handlers (src/handler/client.rs, src/handler/mod.rs)
\* ------------------------------------------------------------------------
\* "user", "md5user", "database", "postgres", "application_name", "pgfake",
\* "client_encoding", "utf8", "md5pass"
UserName == << 117, 115, 101, 114 >>
Md5User == << 109, 100, 53, 117, 115, 101, 114 >>
DatabaseName == << 100, 97, 116, 97, 98, 97, 115, 101 >>
Postgres == << 112, 111, 115, 116, 103, 114, 101, 115 >>
ApplicationName == << 97, 112, 112, 108, 105, 99, 97, 116, 105, 111, 110, 95, 110, 97, 109, 101 >>
PgFake == << 112, 103, 102, 97, 107, 101 >>
ClientEncoding == << 99, 108, 105, 101, 110, 116, 95, 101, 110, 99, 111, 100, 105, 110, 103 >>
Utf8 == << 117, 116, 102, 56 >>
Md5Pass == << 109, 100, 53, 112, 97, 115, 115 >>
\* "SELECT 1 as a, 2 as a, 3 as a;"
ClientQueryText ==
    << 83, 69, 76, 69, 67, 84, 32, 49, 32, 97, 115, 32, 97, 44, 32, 50, 32, 97, 115, 32, 97, 44, 32, 51, 32, 97, 115, 32, 97, 59 >>

\* the StartupMessage md5_authentication_handler sends
ClientStartupMessage ==
    [protocol_version |-> [major |-> 3, minor |-> 0],
     parameters |-> << [name |-> UserName, value |-> Md5User],
                       [name |-> DatabaseName, value |-> Postgres],
                       [name |-> ApplicationName, value |-> PgFake],
                       [name |-> ClientEncoding, value |-> Utf8] >>]


\* the bytes of frames sent one after the other
RECURSIVE Stream(_)
Stream(frames) ==
    IF frames = << >> THEN << >> ELSE frames[1] \o Stream(Tail(frames))

\* LibPqReader::get_raw_backend_message: the frame read off the stream; an
\* ErrorResponse is projected and comes back as Err("Error").
get_raw_backend_message(stream) ==
    LET Projected(raw_message, error) ==
            [st |-> "Err", err |-> IF error.ok THEN "Error" ELSE error.err,
             kind |-> raw_message.header.message_type,
             stream |-> raw_message.stream]
        Got(raw_message) ==
            IF raw_message.st # "Ok"
            THEN [st |-> raw_message.st, err |-> "read", kind |-> 0,
                  stream |-> raw_message.stream]
            ELSE IF raw_message.header.message_type = message_type("ErrorResponse")
            THEN Projected(raw_message, try_from("ErrorResponse", raw_message))
            ELSE [st |-> "Ok", err |-> "", kind |-> raw_message.header.message_type,
                  raw |-> raw_message, stream |-> raw_message.stream]
    IN  Got(RawMessage_get(stream))

\* One read of a handler: get_raw_backend_message()?, then
\* `match X::try_from(&mut raw_message) { Ok(..) => .., _ => return Err(..) }`.
\* st is "Ok", or how the call ends; kind is the kind byte read and stream what
\* the reader still holds.
Expect(name, stream) ==
    LET Matched(got, message) ==
            IF message.ok
            THEN [st |-> "Ok", err |-> "", val |-> message.val,
                  kind |-> got.kind, stream |-> got.stream]
            ELSE IF message.err = "panic"
            THEN [st |-> "panic", err |-> "panic", val |-> << >>,
                  kind |-> got.kind, stream |-> got.stream]
            ELSE [st |-> "Err", err |-> name \o " message expected", val |-> << >>,
                  kind |-> got.kind, stream |-> got.stream]
        Read(got) ==
            IF got.st # "Ok"
            THEN [st |-> got.st, err |-> got.err, val |-> << >>,
                  kind |-> got.kind, stream |-> got.stream]
            ELSE Matched(got, try_from(name, got.raw))
    IN  Read(get_raw_backend_message(stream))

\* One read of the ParameterStatus loop and the BackendKeyData match after it:
\* "Loop" (a ParameterStatus, read again), "Ok" (BackendKeyData), or how the
\* call ends
ExpectParams(stream) ==
    LET Looped(got, message) ==
            IF message.ok
            THEN [st |-> "Loop", err |-> "", kind |-> got.kind, stream |-> got.stream]
            ELSE [st |-> "Err", err |-> message.err, kind |-> got.kind,
                  stream |-> got.stream]
        Read(got) ==
            IF got.st # "Ok"
            THEN [st |-> got.st, err |-> got.err, kind |-> got.kind,
                  stream |-> got.stream]
            ELSE IF got.kind = message_type("ParameterStatus")
            THEN Looped(got, try_from("ParameterStatus", got.raw))
            ELSE IF try_from("BackendKeyData", got.raw).ok
            THEN [st |-> "Ok", err |-> "", kind |-> got.kind, stream |-> got.stream]
            ELSE [st |-> "Err", err |-> "BackendKeyData message expected",
                  kind |-> got.kind, stream |-> got.stream]
    IN  Read(get_raw_backend_message(stream))

\* ------------------------------------------------------------------------
\* What a server may send to the client
\* ------------------------------------------------------------------------
\* the repository's own frames, with the Authentication request of another
\* method (cleartext, sub-kind 3), a BackendKeyData, an Authentication frame
\* without a sub-kind and a frame cut short
AuthenticationCleartextFrame == << 82 >> \o PutI32(8) \o PutI32(3)
BackendKeyDataFrame ==
    put_message("BackendKeyData", [process_id |-> 1, secret_key |-> 2])
ParameterStatusFrame ==
    put_message("ParameterStatus",
                [name |-> ServerVersionName, value |-> ServerVersionValue])
RowDescriptionFrame ==
    put_message("RowDescription",
                [columns |-> << ColumnDescription_new(<< 65 >>, "Text") >>])
DataRowFrame == put_message("DataRow", [columns |-> << << 65 >> >>])
CommandCompleteFrame == put_message("CommandComplete", [command_tag |-> << 83 >>])
ReadyFrame == put_message("ReadyForQuery", ReadyForQuery_new_Idle)
OkFrame == put_message("AuthenticationOk", AuthenticationOk_new)
MD5PasswordFrame ==
    put_message("AuthenticationMD5Password", AuthenticationMD5Password_new(Salt))
\* the same request of a server that draws another salt
OtherSalt == << 4, 3, 2, 1 >>
OtherMD5PasswordFrame ==
    put_message("AuthenticationMD5Password", AuthenticationMD5Password_new(OtherSalt))
BackendFrames ==
    {MD5PasswordFrame, OtherMD5PasswordFrame, OkFrame, AuthenticationCleartextFrame,
     ParameterStatusFrame, BackendKeyDataFrame, ReadyFrame, RowDescriptionFrame, DataRowFrame,
     CommandCompleteFrame, AuthFailureFrames[1],
     << 82 >> \o PutI32(4), << 90, 0, 0 >>}

\* AuthenticationOk, ParameterStatus messages, BackendKeyData or none,
\* ReadyForQuery
ParamsReplies ==
    {<< OkFrame >> \o params \o key \o << ReadyFrame >> :
        params \in SeqsUpTo({ParameterStatusFrame}, MaxVecLen),
        key \in {<< >>, << BackendKeyDataFrame >>}}
\* RowDescription, DataRow messages, CommandComplete, ReadyForQuery
QueryReplies ==
    {<< RowDescriptionFrame >> \o rows \o << CommandCompleteFrame, ReadyFrame >> :
        rows \in SeqsUpTo({DataRowFrame}, MaxVecLen)}
\* an ErrorResponse and the ReadyForQuery that follows it
ErrorReply == << AuthFailureFrames[1], ReadyFrame >>

\* what the server sends in answer to one flush of the client: nothing, any one
\* frame, or one of the replies above.  What the repository's server sends is
\* among them: AuthSuccessFrames and AuthFailureFrames, and QueryFrames of a
\* row of no or one column.
Deliveries ==
    SeqsUpTo(BackendFrames, 1) \cup ParamsReplies \cup QueryReplies \cup {ErrorReply}

\* ------------------------------------------------------------------------
\* The client: one handler, its caller calling md5_authentication_handler and
\* then simple_query_handler, again after an error
\* ------------------------------------------------------------------------
\* md5_authentication_handler is called: put_request(StartupMessage), which
\* flushes; the server answers with `delivery`
ClientStartup ==
    /\ kpc = "Idle" /\ kcall = "none"
    /\ \E delivery \in Deliveries :
          /\ kdelivered' = << delivery >>
          /\ kstream' = kstream \o Stream(delivery)
    /\ ksent' = ksent \o kwriter
                \o << put_request("StartupMessage", ClientStartupMessage) >>
    /\ kwriter' = << >>
    /\ kpc' = "AwaitAuth"
    /\ kcall' = "md5_authentication_handler"
    /\ kret' = "None"
    /\ kerr' = ""
    /\ kprev' = kerr
    /\ kbefore' = kstream
    /\ krecv' = << >>
    /\ UNCHANGED kcalls
    /\ UNCHANGED << codecVars, serverVars, pairVars >>

\* the read of AuthenticationMD5Password; the PasswordMessage is put and
\* flushed, and the server answers with `delivery`.  A stream that holds no
\* whole frame is one the server has closed: the read fails.
ClientAuth ==
    /\ kpc = "AwaitAuth"
    /\ \E message \in {Expect("AuthenticationMD5Password", kstream)} :
           /\ krecv' = Append(krecv, message.kind)
           /\ IF message.st = "Ok"
              THEN /\ \E delivery \in Deliveries :
                         /\ kdelivered' = Append(kdelivered, delivery)
                         /\ kstream' = message.stream \o Stream(delivery)
                   /\ ksent' = ksent \o kwriter
                         \o << put_message("PasswordMessage",
                                   PasswordMessage_new_from_user_password(
                                       Md5User, Md5Pass, message.val.salt)) >>
                   /\ kwriter' = << >>
                   /\ kpc' = "AwaitAuthOk"
                   /\ UNCHANGED << kret, kerr >>
              ELSE /\ kpc' = "Idle"
                   /\ kret' = message.st
                   /\ kerr' = message.err
                   /\ kstream' = message.stream
                   /\ UNCHANGED << kwriter, ksent, kdelivered >>
    /\ UNCHANGED << kcall, kprev, kbefore, kcalls >>
    /\ UNCHANGED << codecVars, serverVars, pairVars >>

\* the read of AuthenticationOk
ClientAuthOk ==
    /\ kpc = "AwaitAuthOk"
    /\ \E message \in {Expect("AuthenticationOk", kstream)} :
           /\ kstream' = message.stream
           /\ krecv' = Append(krecv, message.kind)
           /\ IF message.st = "Ok"
              THEN /\ kpc' = "AwaitParams"
                   /\ UNCHANGED << kret, kerr >>
              ELSE /\ kpc' = "Idle"
                   /\ kret' = message.st
                   /\ kerr' = message.err
    /\ UNCHANGED << kcall, kprev, kbefore, kwriter, ksent, kdelivered, kcalls >>
    /\ UNCHANGED << codecVars, serverVars, pairVars >>

\* a read of the ParameterStatus loop, which ends on BackendKeyData
ClientParams ==
    /\ kpc = "AwaitParams"
    /\ \E message \in {ExpectParams(kstream)} :
           /\ kstream' = message.stream
           /\ krecv' = Append(krecv, message.kind)
           /\ IF message.st = "Loop"
              THEN UNCHANGED << kpc, kret, kerr >>
              ELSE IF message.st = "Ok"
              THEN /\ kpc' = "AwaitReady"
                   /\ UNCHANGED << kret, kerr >>
              ELSE /\ kpc' = "Idle"
                   /\ kret' = message.st
                   /\ kerr' = message.err
    /\ UNCHANGED << kcall, kprev, kbefore, kwriter, ksent, kdelivered, kcalls >>
    /\ UNCHANGED << codecVars, serverVars, pairVars >>

\* the read of ReadyForQuery; md5_authentication_handler returns
ClientReady ==
    /\ kpc = "AwaitReady"
    /\ \E message \in {Expect("ReadyForQuery", kstream)} :
           /\ kstream' = message.stream
           /\ krecv' = Append(krecv, message.kind)
           /\ IF message.st = "Ok"
              THEN /\ kpc' = "Idle"
                   /\ kret' = "Ok"
                   /\ UNCHANGED kerr
              ELSE /\ kpc' = "Idle"
                   /\ kret' = message.st
                   /\ kerr' = message.err
    /\ UNCHANGED << kcall, kprev, kbefore, kwriter, ksent, kdelivered, kcalls >>
    /\ UNCHANGED << codecVars, serverVars, pairVars >>

\* simple_query_handler is called, again after an error too:
\* put_message_and_flush(Query); the server answers with `delivery`
ClientQuery ==
    /\ kpc = "Idle" /\ kcall # "none" /\ kret \in {"Ok", "Err"}
    /\ kcalls < MaxQueries
    /\ \E delivery \in Deliveries :
          /\ kdelivered' = << delivery >>
          /\ kstream' = kstream \o Stream(delivery)
    /\ ksent' = ksent \o kwriter
                \o << put_message("Query", [query |-> ClientQueryText]) >>
    /\ kwriter' = << >>
    /\ kpc' = "AwaitRowDescription"
    /\ kcall' = "simple_query_handler"
    /\ kret' = "None"
    /\ kerr' = ""
    /\ kprev' = kerr
    /\ kbefore' = kstream
    /\ krecv' = << >>
    /\ kcalls' = kcalls + 1
    /\ UNCHANGED << codecVars, serverVars, pairVars >>

\* the read of RowDescription
ClientRowDescription ==
    /\ kpc = "AwaitRowDescription"
    /\ \E message \in {Expect("RowDescription", kstream)} :
           /\ kstream' = message.stream
           /\ krecv' = Append(krecv, message.kind)
           /\ IF message.st = "Ok"
              THEN /\ kpc' = "AwaitDataRow"
                   /\ UNCHANGED << kret, kerr >>
              ELSE /\ kpc' = "Idle"
                   /\ kret' = message.st
                   /\ kerr' = message.err
    /\ UNCHANGED << kcall, kprev, kbefore, kwriter, ksent, kdelivered, kcalls >>
    /\ UNCHANGED << codecVars, serverVars, pairVars >>

\* the read of the DataRow
ClientDataRow ==
    /\ kpc = "AwaitDataRow"
    /\ \E message \in {Expect("DataRow", kstream)} :
           /\ kstream' = message.stream
           /\ krecv' = Append(krecv, message.kind)
           /\ IF message.st = "Ok"
              THEN /\ kpc' = "AwaitCommandComplete"
                   /\ UNCHANGED << kret, kerr >>
              ELSE /\ kpc' = "Idle"
                   /\ kret' = message.st
                   /\ kerr' = message.err
    /\ UNCHANGED << kcall, kprev, kbefore, kwriter, ksent, kdelivered, kcalls >>
    /\ UNCHANGED << codecVars, serverVars, pairVars >>

\* the read of CommandComplete
ClientCommandComplete ==
    /\ kpc = "AwaitCommandComplete"
    /\ \E message \in {Expect("CommandComplete", kstream)} :
           /\ kstream' = message.stream
           /\ krecv' = Append(krecv, message.kind)
           /\ IF message.st = "Ok"
              THEN /\ kpc' = "AwaitReadyForQuery"
                   /\ UNCHANGED << kret, kerr >>
              ELSE /\ kpc' = "Idle"
                   /\ kret' = message.st
                   /\ kerr' = message.err
    /\ UNCHANGED << kcall, kprev, kbefore, kwriter, ksent, kdelivered, kcalls >>
    /\ UNCHANGED << codecVars, serverVars, pairVars >>

\* the read of ReadyForQuery; simple_query_handler returns
ClientReadyForQuery ==
    /\ kpc = "AwaitReadyForQuery"
    /\ \E message \in {Expect("ReadyForQuery", kstream)} :
           /\ kstream' = message.stream
           /\ krecv' = Append(krecv, message.kind)
           /\ IF message.st = "Ok"
              THEN /\ kpc' = "Idle"
                   /\ kret' = "Ok"
                   /\ UNCHANGED kerr
              ELSE /\ kpc' = "Idle"
                   /\ kret' = message.st
                   /\ kerr' = message.err
    /\ UNCHANGED << kcall, kprev, kbefore, kwriter, ksent, kdelivered, kcalls >>
    /\ UNCHANGED << codecVars, serverVars, pairVars >>

InitClientRun == ServerOff /\ InitClient /\ IdleCodec /\ InitChannels

NextClient ==
    \/ ClientStartup
    \/ ClientAuth
    \/ ClientAuthOk
    \/ ClientParams
    \/ ClientReady
    \/ ClientQuery
    \/ ClientRowDescription
    \/ ClientDataRow
    \/ ClientCommandComplete
    \/ ClientReadyForQuery

SpecClient == InitClientRun /\ [][NextClient]_vars

\* the server example and the client, each on its own
InitHandlers == Init \/ InitClientRun

NextHandlers == Next \/ NextClient

SpecHandlers == InitHandlers /\ [][NextHandlers]_vars

\* ------------------------------------------------------------------------
\* The client of examples/client.rs connected to the server of
\* examples/server.rs: two byte streams, each reliable and in order, whose
\* bytes arrive in pieces of any size
\* ------------------------------------------------------------------------
\* read_exact(4) and read_exact(length - 4) of RawRequest::get have their bytes
RequestComplete(stream) ==
    /\ Len(stream) >= 4
    /\ (GetI32(stream) < 4 \/ Len(stream) >= GetI32(stream))
\* read_exact(5) and read_exact(length - 4) of RawBackendMessage::get /
\* RawFrontendMessage::get have their bytes
FrameComplete(stream) ==
    /\ Len(stream) >= 5
    /\ (GetI32(SubSeq(stream, 2, 5)) < 4
          \/ Len(stream) - 1 >= GetI32(SubSeq(stream, 2, 5)))

\* a read of the server's handler returns: its bytes are there, or the client
\* has dropped its TcpHandler and nothing more is coming (end of stream)
ServerReads(complete) == complete \/ (kpc = "Ended" /\ c2s = << >>)
\* a read of the client's handler returns
ClientReads == FrameComplete(kstream) \/ (pc = "Closed" /\ s2c = << >>)

\* the bytes a handler's outcome hands to the transport: everything buffered
\* when its last put flushed, or when the handler is dropped
Sent(out, dropped) ==
    IF out.flushed \/ dropped THEN Stream(tcp_writer \o out.put) ELSE << >>

\* What the server's handlers do on the streams the client of the pair hands
\* them, one request or frame at a time, and on the end of the stream: the
\* handler's outcome and what its reader holds afterwards
PairStreams ==
    {<< >>,
     put_request("StartupMessage", ClientStartupMessage),
     put_message("PasswordMessage",
                 PasswordMessage_new_from_user_password(Md5User, Md5Pass, Salt)),
     put_message("Query", [query |-> ClientQueryText])}
PairStartupOutcomes ==
    {[stream |-> st, r |-> md5_authentication_startup(st),
      rest |-> IF RequestComplete(st) THEN Drop(st, GetI32(st)) ELSE << >>] :
        st \in PairStreams}
PairPasswordOutcomes ==
    {[stream |-> st, result |-> result, recv |-> KindRead(st),
      password |-> PasswordRead(st), r |-> md5_authentication_password(st, result),
      rest |-> RawMessage_get(st).stream] :
        st \in PairStreams, result \in BOOLEAN}
PairQueryOutcomes ==
    UNION {{[stream |-> st, exec |-> exec, recv |-> KindRead(st),
             r |-> simple_query_handler(st, exec),
             rest |-> RawMessage_get(st).stream] :
               exec \in ExecutorResultsFor(st)} :
           st \in PairStreams}

\* the connection is accepted, both TcpHandlers are made
InitPair ==
    /\ main = "Running"
    /\ backlog = 0
    /\ pc = "Startup"
    /\ tcp_writer = << >>
    /\ wire = << >>
    /\ sm = << >>
    /\ connection_parameters = << >>
    /\ auth = NoAuth
    /\ query = NoQuery
    /\ nqueries = 0
    /\ recv = 0
    /\ salts = << >>
    /\ InitClient
    /\ IdleCodec
    /\ InitChannels

\* some of the bytes in flight reach the server; a server that has dropped
\* its TcpHandler reads none of them
PairDeliverToServer ==
    /\ c2s # << >>
    /\ \E n \in {1, Len(c2s)} :
          /\ tcp_reader' = IF pc = "Closed" THEN << >>
                           ELSE tcp_reader \o SubSeq(c2s, 1, n)
          /\ c2s' = Drop(c2s, n)
    /\ UNCHANGED s2c
    /\ UNCHANGED << codecVars, serverVars, clientVars >>

\* some of the bytes in flight reach the client
PairDeliverToClient ==
    /\ s2c # << >>
    /\ \E n \in {1, Len(s2c)} :
          /\ kstream' = IF kpc = "Ended" THEN << >>
                        ELSE kstream \o SubSeq(s2c, 1, n)
          /\ s2c' = Drop(s2c, n)
    /\ UNCHANGED << c2s, tcp_reader >>
    /\ UNCHANGED << kpc, kcall, kret, kerr, kprev, kbefore, kwriter, ksent, krecv,
                    kdelivered, kcalls >>
    /\ UNCHANGED << codecVars, serverVars >>

\* main of examples/client.rs calls md5_authentication_handler:
\* put_request(StartupMessage), which flushes
PairClientStartup ==
    /\ kpc = "Idle" /\ kcall = "none"
    /\ ksent' = ksent \o kwriter
                \o << put_request("StartupMessage", ClientStartupMessage) >>
    /\ c2s' = c2s \o Stream(kwriter)
                \o put_request("StartupMessage", ClientStartupMessage)
    /\ kwriter' = << >>
    /\ kpc' = "AwaitAuth"
    /\ kcall' = "md5_authentication_handler"
    /\ kret' = "None"
    /\ kerr' = ""
    /\ kprev' = kerr
    /\ kbefore' = kstream
    /\ krecv' = << >>
    /\ UNCHANGED << kstream, kdelivered, kcalls >>
    /\ UNCHANGED << s2c, tcp_reader >>
    /\ UNCHANGED << codecVars, serverVars >>

\* the read of AuthenticationMD5Password; the PasswordMessage is put and
\* flushed
PairClientAuth ==
    /\ kpc = "AwaitAuth"
    /\ ClientReads
    /\ \E message \in {Expect("AuthenticationMD5Password", kstream)} :
           /\ krecv' = Append(krecv, message.kind)
           /\ kstream' = message.stream
           /\ IF message.st = "Ok"
              THEN /\ \E frame \in {put_message("PasswordMessage",
                                         PasswordMessage_new_from_user_password(
                                             Md5User, Md5Pass, message.val.salt))} :
                         /\ ksent' = ksent \o kwriter \o << frame >>
                         /\ c2s' = c2s \o Stream(kwriter) \o frame
                   /\ kwriter' = << >>
                   /\ kpc' = "AwaitAuthOk"
                   /\ UNCHANGED << kret, kerr >>
              ELSE /\ kpc' = "Idle"
                   /\ kret' = message.st
                   /\ kerr' = message.err
                   /\ UNCHANGED << kwriter, ksent, c2s >>
    /\ UNCHANGED << kcall, kprev, kbefore, kdelivered, kcalls >>
    /\ UNCHANGED << s2c, tcp_reader >>
    /\ UNCHANGED << codecVars, serverVars >>

\* every other read of the two handlers, once its bytes are there
PairClientRead ==
    /\ ClientReads
    /\ \/ ClientAuthOk \/ ClientParams \/ ClientReady
       \/ ClientRowDescription \/ ClientDataRow \/ ClientCommandComplete
       \/ ClientReadyForQuery

\* main of examples/client.rs after a handler returned:
\* `handler.md5_authentication_handler()?; handler.simple_query_handler()?;`
\* calls simple_query_handler, which puts the Query and flushes, or returns,
\* which drops the TcpHandler and closes the stream
PairClientMain ==
    /\ kpc = "Idle" /\ kcall # "none"
    /\ IF kcall = "md5_authentication_handler" /\ kret = "Ok"
       THEN /\ \E frame \in {put_message("Query", [query |-> ClientQueryText])} :
                  /\ ksent' = ksent \o kwriter \o << frame >>
                  /\ c2s' = c2s \o Stream(kwriter) \o frame
            /\ kwriter' = << >>
            /\ kpc' = "AwaitRowDescription"
            /\ kcall' = "simple_query_handler"
            /\ kret' = "None"
            /\ kerr' = ""
            /\ kprev' = kerr
            /\ kbefore' = kstream
            /\ krecv' = << >>
            /\ kcalls' = kcalls + 1
            /\ UNCHANGED kstream
       ELSE /\ kpc' = "Ended"
            /\ c2s' = c2s \o Stream(kwriter)
            /\ kwriter' = << >>
            /\ kstream' = << >>
            /\ UNCHANGED << kcall, kret, kerr, kprev, kbefore, ksent, krecv, kcalls >>
    /\ UNCHANGED kdelivered
    /\ UNCHANGED << s2c, tcp_reader >>
    /\ UNCHANGED << codecVars, serverVars >>

\* md5_authentication_handler of the server up to its wait for the
\* PasswordMessage, on the bytes its reader holds
PairRecvStartup ==
    /\ pc = "Startup"
    /\ ServerReads(RequestComplete(tcp_reader))
    /\ \E o \in PairStartupOutcomes :
         /\ o.stream = tcp_reader
         /\ LET r == o.r
            IN IF r.out.ret = "Continue"
              THEN /\ pc' = "AwaitPassword"
                   /\ UNCHANGED << main, backlog >>
                   /\ sm' = r.parameters
                   /\ wire' = Flushed(r.out)
                   /\ tcp_writer' = Buffered(r.out)
                   /\ s2c' = s2c \o Sent(r.out, FALSE)
                   /\ tcp_reader' = o.rest
                   /\ auth' = [auth EXCEPT !.put = r.out.put, !.flushed = r.out.flushed]
                   /\ salts' = Append(salts, SaltOf(r.out.put[1]))
              ELSE /\ pc' = "Closed"
                   /\ main' = "Returned"
                   /\ backlog' = 0
                   /\ sm' = sm
                   /\ wire' = Dropped(r.out.put)
                   /\ tcp_writer' = << >>
                   /\ s2c' = s2c \o Sent(r.out, TRUE)
                   /\ tcp_reader' = << >>
                   /\ auth' = [auth EXCEPT !.ret = r.out.ret]
                   /\ salts' = salts
    /\ UNCHANGED << connection_parameters, query, nqueries, recv, c2s >>
    /\ UNCHANGED << codecVars, clientVars >>

\* md5_authentication_handler of the server from the PasswordMessage to its
\* return; auth_function() returns `result`
PairRecvPassword ==
    /\ pc = "AwaitPassword"
    /\ ServerReads(FrameComplete(tcp_reader))
    /\ \E o \in PairPasswordOutcomes :
          LET r == o.r
          IN  /\ o.stream = tcp_reader
              /\ auth' = [ret |-> r.out.ret, called |-> r.called,
                          result |-> r.called /\ o.result,
                          put |-> auth.put \o r.out.put, flushed |-> r.out.flushed,
                          password |-> o.password]
              /\ recv' = o.recv
              /\ IF r.out.ret = "Ok"
                 THEN /\ pc' = "ReadyForQuery"
                      /\ UNCHANGED << main, backlog >>
                      /\ connection_parameters' = sm
                      /\ wire' = Flushed(r.out)
                      /\ tcp_writer' = Buffered(r.out)
                      /\ s2c' = s2c \o Sent(r.out, FALSE)
                      /\ tcp_reader' = o.rest
                 ELSE /\ pc' = "Closed"
                      /\ main' = "Returned"
                      /\ backlog' = 0
                      /\ connection_parameters' = connection_parameters
                      /\ wire' = Dropped(r.out.put)
                      /\ tcp_writer' = << >>
                      /\ s2c' = s2c \o Sent(r.out, TRUE)
                      /\ tcp_reader' = << >>
    /\ UNCHANGED << sm, query, nqueries, salts, c2s >>
    /\ UNCHANGED << codecVars, clientVars >>

\* one turn of the server's loop: simple_query_handler(&executor)?, the
\* executor returning `exec`
PairSimpleQuery ==
    /\ pc = "ReadyForQuery"
    /\ nqueries < MaxQueries
    /\ ServerReads(FrameComplete(tcp_reader))
    /\ \E o \in PairQueryOutcomes :
          LET r == o.r
          IN  /\ o.stream = tcp_reader
              /\ query' = [ret |-> r.out.ret, accepted |-> r.accepted,
                           executed |-> r.executed, put |-> r.out.put,
                           flushed |-> r.out.flushed, before |-> wire,
                           exec |-> o.exec]
              /\ recv' = o.recv
              /\ IF r.out.ret = "Ok"
                 THEN /\ pc' = "ReadyForQuery"
                      /\ UNCHANGED << main, backlog >>
                      /\ wire' = Flushed(r.out)
                      /\ tcp_writer' = Buffered(r.out)
                      /\ s2c' = s2c \o Sent(r.out, FALSE)
                      /\ tcp_reader' = o.rest
                 ELSE /\ pc' = "Closed"
                      /\ main' = "Returned"
                      /\ backlog' = 0
                      /\ wire' = Dropped(r.out.put)
                      /\ tcp_writer' = << >>
                      /\ s2c' = s2c \o Sent(r.out, TRUE)
                      /\ tcp_reader' = << >>
    /\ nqueries' = nqueries + 1
    /\ UNCHANGED << sm, connection_parameters, auth, salts, c2s >>
    /\ UNCHANGED << codecVars, clientVars >>

NextPair ==
    \/ PairDeliverToServer
    \/ PairDeliverToClient
    \/ PairClientStartup
    \/ PairClientAuth
    \/ PairClientRead
    \/ PairClientMain
    \/ PairRecvStartup
    \/ PairRecvPassword
    \/ PairSimpleQuery

SpecPair == InitPair /\ [][NextPair]_vars



\* ------------------------------------------------------------------------
\* Properties of the server handlers (Spec)
\* ------------------------------------------------------------------------
FrameKindOf(frame) == frame[1]
ReadyForQueryIdleFrame == << 90, 0, 0, 0, 5, 73 >>
AuthenticationMD5PasswordFrame == << 82, 0, 0, 0, 12, 0, 0, 0, 5, 1, 2, 3, 4 >>
AuthenticationOkFrame == << 82, 0, 0, 0, 8, 0, 0, 0, 0 >>

\* RowDescription, DataRow*, CommandComplete, ReadyForQuery(Idle)
IsQueryReply(frames) ==
    /\ Len(frames) >= 3
    /\ FrameKindOf(frames[1]) = 84
    /\ \A i \in 2..(Len(frames) - 2) : FrameKindOf(frames[i]) = 68
    /\ FrameKindOf(frames[Len(frames) - 1]) = 67
    /\ frames[Len(frames)] = ReadyForQueryIdleFrame

\* nothing, or RowDescription then DataRow*: a reply cut before CommandComplete
IsCutQueryReply(frames) ==
    /\ Len(frames) >= 1 => FrameKindOf(frames[1]) = 84
    /\ \A i \in 2..Len(frames) : FrameKindOf(frames[i]) = 68

C1_CutWitness ==
    query.accepted /\ query.ret = "Err" /\ Len(query.put) >= 1

\* C2: when auth_function returns true the server's messages on the connection
\* are exactly AuthenticationMD5Password (sent once the StartupMessage is read,
\* before the PasswordMessage is read), AuthenticationOk, ParameterStatus(es),
\* ReadyForQuery(Idle); the handler returns Ok with nothing after ReadyForQuery.
C2_AuthSuccessSequence ==
    /\ pc = "AwaitPassword" =>
          wire = << AuthenticationMD5PasswordFrame >> /\ tcp_writer = << >>
    /\ (auth.called /\ auth.result) =>
          /\ auth.ret = "Ok"
          /\ Len(auth.put) >= 4
          /\ auth.put[1] = AuthenticationMD5PasswordFrame
          /\ auth.put[2] = AuthenticationOkFrame
          /\ \A i \in 3..(Len(auth.put) - 1) : FrameKindOf(auth.put[i]) = 83
          /\ auth.put[Len(auth.put)] = ReadyForQueryIdleFrame
          /\ SubSeq(wire, 1, Len(auth.put)) = auth.put
          /\ (nqueries = 0 => wire = auth.put /\ pc = "ReadyForQuery")
          /\ tcp_writer = << >>
          /\ connection_parameters = sm

\* C2 happens: the handshake succeeded and the query loop is about to read
C2_Witness ==
    /\ auth.called /\ auth.result /\ auth.ret = "Ok"
    /\ pc = "ReadyForQuery" /\ nqueries = 0
    /\ Len(connection_parameters) = 1

\* the frames of `frames` of kind `kind`
FramesOfKind(frames, kind) ==
    {i \in 1..Len(frames) : FrameKindOf(frames[i]) = kind}

\* C3: when auth_function returns false the server sends exactly one
\* ErrorResponse whose only field is 'M' "Incorrect password or user", flushed,
\* returns an error, the connection is closed, and no AuthenticationOk,
\* ParameterStatus or ReadyForQuery is ever sent on it.
C3_AuthFailure ==
    (auth.called /\ ~auth.result) =>
        /\ auth.ret = "Err"
        /\ pc = "Closed"
        /\ auth.flushed /\ tcp_writer = << >>
        /\ Cardinality(FramesOfKind(wire, 69)) = 1
        /\ \A i \in FramesOfKind(wire, 69) :
              LET raw == RawMessage_get(wire[i])
              IN  /\ raw.st = "Ok" /\ raw.stream = << >>
                  /\ deserialize(ErrorResponse, raw.raw_body) =
                        Ok([messages |->
                               << [code |-> 77, message |-> IncorrectPasswordOrUser] >>],
                           << >>)
        /\ FramesOfKind(wire, 83) = {}
        /\ FramesOfKind(wire, 90) = {}
        /\ \A i \in FramesOfKind(wire, 82) : wire[i] # AuthenticationOkFrame
        /\ wire = auth.put
        /\ Len(wire) = 2

\* C3 happens: the predicate was called and said no
C3_Witness ==
    auth.called /\ ~auth.result /\ auth.ret = "Err" /\ Len(wire) = 2


\* C11, as stated: the salt is generated per connection, so that two
\* connections the server serves receive different salts.
C11_SaltPerConnection ==
    \A i, j \in 1..Len(salts) : i < j => salts[i] # salts[j]

\* every connection receives the salt 1, 2, 3, 4
C11_SaltConstant ==
    \A i \in 1..Len(salts) : salts[i] = << 1, 2, 3, 4 >>

\* frames[i] is an ErrorResponse and frames[i + 1] is ReadyForQuery(Idle)
ErrorThenReady(frames) ==
    \E i \in 1..(Len(frames) - 1) :
        FrameKindOf(frames[i]) = 69 /\ frames[i + 1] = ReadyForQueryIdleFrame

\* C12, as stated: when the executor's result cannot be encoded (a command tag
\* that is no C-string) the server emits ErrorResponse, then
\* ReadyForQuery(Idle), and stays in ReadyForQuery for the next Query.
C12_ExecutorFailureAnswered ==
    (query.executed /\ ~CString_new_ok(query.exec.command_tag)) =>
        /\ ErrorThenReady(query.put)
        /\ pc = "ReadyForQuery"

\* what the handler does then: it returns the error, no ErrorResponse and no
\* ReadyForQuery is put, and the connection ends
C12_ExecutorFailureCloses ==
    (query.executed /\ ~CString_new_ok(query.exec.command_tag)) =>
        /\ query.ret = "Err"
        /\ FramesOfKind(query.put, 69) = {}
        /\ FramesOfKind(query.put, 90) = {}
        /\ pc = "Closed"

\* C13, as stated: the DataRow frames between RowDescription and
\* CommandComplete are one per row the executor yielded, a row of zero columns
\* included, and RowDescription is emitted even with zero columns.  The
\* executor's Vec<ColumnData> is the one row it yields.
C13_DataRowPerRow ==
    (query.executed /\ query.ret = "Ok") =>
        /\ query.put[1] = put_message("RowDescription",
                                      [columns |-> query.exec.column_desc])
        /\ Cardinality(FramesOfKind(query.put, 68)) = 1
        /\ query.put[2] = put_message("DataRow",
                                      [columns |-> query.exec.column_data])

\* what the handler does: RowDescription always, and one DataRow exactly when
\* the executor's Vec<ColumnData> is not empty
C13_DataRowIfColumns ==
    (query.executed /\ query.ret = "Ok") =>
        /\ query.put[1] = put_message("RowDescription",
                                      [columns |-> query.exec.column_desc])
        /\ Cardinality(FramesOfKind(query.put, 68)) =
              IF Len(query.exec.column_data) > 0 THEN 1 ELSE 0
        /\ Cardinality(FramesOfKind(query.put, 68)) <= 1

\* C14: once the startup message is read, a Terminate frame ('X') closes the
\* connection: nothing more is sent on it, and neither auth_function nor the
\* executor is called.
C14_Terminate ==
    recv = 88 =>
        /\ pc = "Closed"
        /\ tcp_writer = << >>
        /\ nqueries = 0 =>
              /\ auth.ret = "Err" /\ ~auth.called
              /\ wire = << AuthenticationMD5PasswordFrame >>
        /\ nqueries > 0 =>
              /\ query.ret = "Err" /\ ~query.accepted /\ ~query.executed
              /\ query.put = << >>
              /\ wire = query.before

\* C14 happens: Terminate read where a Query was awaited
C14_Witness ==
    recv = 88 /\ nqueries = 2 /\ pc = "Closed" /\ Len(wire) >= 8

\* the server read a frame of another kind than the one it awaited
ProtocolViolation ==
    \/ nqueries = 0 /\ auth.ret = "Err" /\ recv \in {81, 88}
    \/ nqueries > 0 /\ query.ret = "Err" /\ recv \in {112, 88}

\* C15, as stated: on a frame that is no PasswordMessage when the password is
\* awaited, or no Query when a query is awaited, the server emits an
\* ErrorResponse with an 'M' field before it closes the connection.
C15_ViolationAnswered ==
    ProtocolViolation =>
        /\ pc = "Closed"
        /\ Len(wire) >= 1
        /\ FrameKindOf(wire[Len(wire)]) = 69
        /\ LET raw   == RawMessage_get(wire[Len(wire)])
               error == deserialize(ErrorResponse, raw.raw_body)
           IN  /\ error.ok
               /\ \E i \in 1..Len(error.val.messages) :
                     error.val.messages[i].code = 77

\* what the server does then: it closes the connection and sends nothing
C15_ViolationCloses ==
    ProtocolViolation =>
        /\ pc = "Closed"
        /\ FramesOfKind(wire, 69) = {}
        /\ (nqueries = 0 => wire = << AuthenticationMD5PasswordFrame >>)
        /\ (nqueries > 0 => wire = query.before)

\* ------------------------------------------------------------------------
\* Properties of the client (SpecClient)
\* ------------------------------------------------------------------------
\* the call of `call` has returned
ClientDone(call) == kcall = call /\ kpc = "Idle" /\ kret # "None"

StartupRequest == put_request("StartupMessage", ClientStartupMessage)
\* the PasswordMessage frame the client sends for a salt
PasswordFrameFor(salt) ==
    put_message("PasswordMessage",
                PasswordMessage_new_from_user_password(Md5User, Md5Pass, salt))
\* the one for the salt of the repository's server
PasswordFrame == PasswordFrameFor(Salt)
QueryFrame == put_message("Query", [query |-> ClientQueryText])

\* the handshake has read its first frame and no other, on a fresh connection
FirstFrameRead ==
    /\ kcall = "md5_authentication_handler"
    /\ kbefore = << >>
    /\ Len(krecv) = 1
    /\ kdelivered[1] # << >>

\* C16, as stated: in AwaitAuth, AuthenticationOk (R/0) first takes the client
\* to AwaitParams without a PasswordMessage; AuthenticationMD5Password (R/5)
\* makes it send exactly one PasswordMessage and await AuthenticationOk; any
\* other Authentication sub-kind is a failure.
C16_AwaitAuth ==
    FirstFrameRead =>
        LET first == kdelivered[1][1]
        IN  /\ first = OkFrame =>
                  /\ kpc = "AwaitParams" /\ kret = "None"
                  /\ ksent = << StartupRequest >>
            /\ first = MD5PasswordFrame =>
                  /\ kpc = "AwaitAuthOk" /\ kret = "None"
                  /\ ksent = << StartupRequest, PasswordFrame >>
            /\ first = AuthenticationCleartextFrame =>
                  /\ kpc = "Idle" /\ kret = "Err"
                  /\ ksent = << StartupRequest >>

\* what the handler does: only AuthenticationMD5Password is accepted first;
\* AuthenticationOk ends the call like any other sub-kind
C16_MD5PasswordOnly ==
    FirstFrameRead =>
        LET first == kdelivered[1][1]
        IN  /\ first = MD5PasswordFrame =>
                  /\ kpc = "AwaitAuthOk" /\ kret = "None"
                  /\ ksent = << StartupRequest, PasswordFrame >>
            /\ first \in {OkFrame, AuthenticationCleartextFrame} =>
                  /\ kpc = "Idle" /\ kret = "Err"
                  /\ kerr = "AuthenticationMD5Password message expected"
                  /\ ksent = << StartupRequest >>

\* the handshake has returned after AuthenticationMD5Password, the password
\* sent and a reply AuthenticationOk, ParameterStatus*, [BackendKeyData],
\* ReadyForQuery
ParamsReplyRead ==
    /\ ClientDone("md5_authentication_handler")
    /\ kbefore = << >>
    /\ Len(kdelivered) = 2
    /\ kdelivered[1] = << MD5PasswordFrame >>
    /\ kdelivered[2] \in ParamsReplies

\* C17, as stated: in AwaitParams any number of ParameterStatus messages, none
\* included, is accepted, and ReadyForQuery is reached through BackendKeyData
\* and ReadyForQuery or on ReadyForQuery directly; both return Ok.
C17_AwaitParams ==
    ParamsReplyRead => (kret = "Ok" /\ kstream = << >>)

\* what the handler does: Ok exactly when the BackendKeyData is there
C17_KeyDataRequired ==
    ParamsReplyRead =>
        IF \E i \in 1..Len(kdelivered[2]) : kdelivered[2][i] = BackendKeyDataFrame
        THEN kret = "Ok" /\ kstream = << >>
        ELSE kret = "Err" /\ kerr = "BackendKeyData message expected"

\* a call of simple_query_handler has returned, the reader empty when it
\* began and its Query answered by RowDescription, DataRow*, CommandComplete,
\* ReadyForQuery
QueryReplyRead ==
    /\ ClientDone("simple_query_handler")
    /\ kbefore = << >>
    /\ kdelivered[1] \in QueryReplies

\* C18, as stated: the client's simple query accepts RowDescription, any
\* number of DataRow messages, none included, CommandComplete, ReadyForQuery,
\* and returns Ok.
C18_SimpleQuery ==
    QueryReplyRead => (kret = "Ok" /\ kstream = << >>)

\* what the handler does: Ok exactly when there is one DataRow
C18_OneDataRow ==
    QueryReplyRead =>
        IF Len(kdelivered[1]) = 4
        THEN kret = "Ok" /\ kstream = << >>
        ELSE kret = "Err"
             /\ kerr \in {"DataRow message expected", "CommandComplete message expected"}

\* the call before ended on an ErrorResponse, and the ReadyForQuery that
\* followed it was all the reader held when this simple_query_handler began
AfterErrorResponse ==
    /\ ClientDone("simple_query_handler")
    /\ kprev = "Error"
    /\ kbefore = ReadyFrame

\* C19, as stated: an ErrorResponse ends the operation with an error, the
\* stream staying open, and the ReadyForQuery that follows it restores the
\* ReadyForQuery state: the next simple_query_handler on the same handler,
\* answered by RowDescription, DataRow, CommandComplete, ReadyForQuery,
\* completes its round trip.
C19_RecoversAfterError ==
    /\ (Len(krecv) >= 1 /\ krecv[Len(krecv)] = 69) => (kpc = "Idle" /\ kret = "Err")
    /\ (AfterErrorResponse
        /\ kdelivered[1] = << RowDescriptionFrame, DataRowFrame,
                              CommandCompleteFrame, ReadyFrame >>)
          => kret = "Ok"

\* what the handler does: the ErrorResponse ends the call, the ReadyForQuery
\* behind it stays unread, and the next call reads it where it expects
\* RowDescription
C19_StaleReadyForQuery ==
    /\ (Len(krecv) >= 1 /\ krecv[Len(krecv)] = 69) => (kpc = "Idle" /\ kret = "Err")
    /\ AfterErrorResponse =>
          /\ kret = "Err" /\ kerr = "RowDescription message expected"
          /\ krecv = << 90 >>
          /\ kstream = Stream(kdelivered[1])

\* ------------------------------------------------------------------------
\* Properties of both handlers (SpecHandlers)
\* ------------------------------------------------------------------------
\* C20: flush before await.  Whenever a handler of the server or of the client
\* blocks on a read, every message it has put so far has been flushed: the
\* BufWriter holds nothing and the messages are on the stream.
C20_FlushBeforeAwait ==
    /\ pc \in {"Startup", "AwaitPassword", "ReadyForQuery"} => tcp_writer = << >>
    /\ pc = "Startup" => wire = << >>
    /\ pc = "AwaitPassword" => wire = << AuthenticationMD5PasswordFrame >>
    /\ (pc = "ReadyForQuery" /\ nqueries = 0) =>
          wire = << AuthenticationMD5PasswordFrame >> \o AuthSuccessFrames
    /\ (pc = "ReadyForQuery" /\ nqueries > 0) => wire = query.before \o query.put
    /\ kpc \notin {"Off", "Idle"} =>
          /\ kwriter = << >>
          /\ Len(ksent) >= 1
          /\ kpc = "AwaitAuth" => ksent = << StartupRequest >>
          /\ kpc \in {"AwaitAuthOk", "AwaitParams", "AwaitReady"} =>
                ksent = << StartupRequest, PasswordFrameFor(SaltOf(kdelivered[1][1])) >>
          /\ kcall = "simple_query_handler" =>
                /\ ksent[Len(ksent)] = QueryFrame
                /\ Cardinality({i \in 1..Len(ksent) : ksent[i] = QueryFrame}) = kcalls

\* C20 happens: the server blocks on its read after a query whose
\* RowDescription, DataRow and CommandComplete were put without a flush
C20_Witness ==
    /\ pc = "ReadyForQuery" /\ nqueries = 1
    /\ Len(query.put) = 4 /\ query.flushed
    /\ tcp_writer = << >>

\* ------------------------------------------------------------------------
\* The handshake's outcome (Spec)
\* ------------------------------------------------------------------------
\* what the handshake sends and returns, given auth_function()'s result
AuthOutcome(result) ==
    [ret |-> IF result THEN "Ok" ELSE "Err",
     put |-> << AuthenticationMD5PasswordFrame >>
             \o (IF result THEN AuthSuccessFrames ELSE AuthFailureFrames)]

\* every outcome of a handshake in which auth_function() returned result:
\* any StartupMessage followed by any well-formed PasswordMessage
HandshakeOutcomesOf(result) ==
    {[ret |-> o.r.out.ret, put |-> s.out.put \o o.r.out.put] :
        s \in {x \in StartupOutcomes : x.out.ret = "Continue"},
        o \in {y \in PasswordOutcomes : y.r.called /\ y.result = result}}
HandshakeOutcomes ==
    [accepted |-> HandshakeOutcomesOf(TRUE), refused |-> HandshakeOutcomesOf(FALSE)]

\* C29: once a well-formed PasswordMessage was read, what the server sent and
\* whether the handshake returned Ok or Err are fixed by auth_function()'s
\* result alone: they are the same for every StartupMessage and every
\* well-formed PasswordMessage the client could have sent instead.
C29_OutcomeOfPredicateOnly ==
    auth.called =>
        /\ auth.ret = AuthOutcome(auth.result).ret
        /\ auth.put = AuthOutcome(auth.result).put
        /\ (nqueries = 0 => wire = auth.put)
        /\ (IF auth.result THEN HandshakeOutcomes.accepted ELSE HandshakeOutcomes.refused)
               = {[ret |-> auth.ret, put |-> auth.put]}

\* C29 happens: a handshake with StartupMessage parameters and a password that
\* is not empty was refused by auth_function()
C29_Witness ==
    /\ pc = "Closed"
    /\ auth.called /\ ~auth.result
    /\ sm # << >>
    /\ auth.password # << >>
    /\ \E o \in PasswordOutcomes : o.r.called /\ o.password # auth.password

\* ------------------------------------------------------------------------
\* The MD5 password (SpecClient, SpecCodec)
\* ------------------------------------------------------------------------
\* "md5" ++ lowerhex(H(lowerhex(H(password ++ user)) ++ salt))
Md5Password(user, password, salt) ==
    << 109, 100, 53 >> \o LowerHex(Md5(LowerHex(Md5(password \o user)) \o salt))

\* C28: the PasswordMessage the client sends carries "md5" ++
\* lowerhex(H(lowerhex(H(password ++ user)) ++ salt)), with the client's user
\* and password and the salt of the AuthenticationMD5Password it received.
C28_Md5Password ==
    kcall = "md5_authentication_handler" =>
        /\ kpc = "AwaitAuthOk" => Len(ksent) = 2
        /\ Len(ksent) >= 2 =>
              LET salt    == SaltOf(kdelivered[1][1])
                  payload == Md5Password(Md5User, Md5Pass, salt) \o << 0 >>
              IN  ksent[2] = << 112 >> \o PutI32(4 + Len(payload)) \o payload

\* C28 happens: the client answered a request whose salt is not the one of
\* the repository's server
C28_Witness ==
    /\ kpc = "AwaitAuthOk"
    /\ Len(ksent) = 2
    /\ kdelivered[1][1] = OtherMD5PasswordFrame
    /\ SaltOf(kdelivered[1][1]) = OtherSalt

\* the same of the function itself, on every user, password and salt given
C28_NewFromUserPassword ==
    (cmode = "password" /\ cpc = "new_from_user_password") =>
        /\ cresult.val.password = Md5Password(cvalue.user, cvalue.password, cvalue.salt)
        /\ Len(cresult.val.password) = 35
        /\ \A other \in UserPasswordInputs :
              (other.user = cvalue.password /\ other.password = cvalue.user
                  /\ other.user # other.password /\ other.salt = cvalue.salt)
              => cresult.val.password # Md5Password(other.user, other.password, other.salt)

\* ------------------------------------------------------------------------
\* Properties of the accept loop (Spec)
\* ------------------------------------------------------------------------
\* a handler of the connection returned an error or panicked: the
\* authentication was refused, the client sent the wrong frame or a
\* Terminate, or it hung up
ConnectionFailed ==
    \/ auth.ret \notin {"None", "Ok"}
    \/ query.ret \notin {"None", "Ok"}

\* C21, as stated: a failure on one connection (authentication rejected,
\* protocol violation, client disconnect or Terminate) ends only that
\* connection: main is still inside its accept loop, from which it takes the
\* next connection.
C21_FailureEndsConnectionOnly ==
    ConnectionFailed => main = "Running"

\* what the server does: every handler error leaves main through `?`, so the
\* connection's failure is the end of the server, and nothing else ends it
C21_FailureLeavesMain ==
    ConnectionFailed <=> main = "Returned"

\* a failed accept (the arm Err(e)) does not end the loop
C21_AcceptErrorContinues ==
    [][AcceptError => main' = "Running" /\ pc' = "Listening"]_vars

\* C22, as stated: a second client that connects while the first connection
\* is open in its query loop can be accepted, and its handshake served,
\* without the first connection having ended.
C22_SecondClientAccepted ==
    (main = "Running" /\ backlog > 0 /\ pc = "ReadyForQuery") => ENABLED Accept

\* what the server does: the handlers run inside the accept loop, on main's
\* own thread, so a waiting client is accepted only when main is back in
\* incoming()
C22_AcceptedWhenListening ==
    ENABLED Accept => pc = "Listening"

\* and the connection served ends only with an error that leaves main, which
\* closes the listener with the clients still waiting on it
C22_WaitingClientDropped ==
    [][(backlog > 0 /\ pc \in {"Startup", "AwaitPassword", "ReadyForQuery"})
          => (pc' # "Listening" /\ (pc' = "Closed" => backlog' = 0))]_vars

\* ------------------------------------------------------------------------
\* Properties of the codec (SpecCodec)
\* ------------------------------------------------------------------------
\* C4, as stated: deserializing the bytes serialize produced for a typed
\* message m yields m and consumes exactly those bytes.
C4_RoundTrip ==
    (cmode = "value" /\ cpc = "deserialized") =>
        /\ cresult.ok
        /\ cresult.val = cvalue
        /\ cresult.rest = << >>

\* the round trip of every message whose 16-bit counted vectors hold at most
\* I16Max elements does hold
C4_RoundTripCounted ==
    (cmode = "value" /\ cpc = "deserialized"
        /\ ~(ctype = "DataRow" /\ Len(cvalue.columns) > I16Max)) =>
        /\ cresult.ok
        /\ cresult.val = cvalue
        /\ cresult.rest = << >>

RECURSIVE FieldSum(_, _, _)
\* the sum of the byte sizes of the fields i.. of a record
FieldSum(fields, v, i) ==
    IF i > Len(fields) THEN 0
    ELSE byte_size(fields[i][2], v[fields[i][1]]) + FieldSum(fields, v, i + 1)

\* C5: the number of bytes serialize(m) appends equals byte_size(m), and for a
\* record byte_size(m) is the sum of its fields' byte sizes.
C5_ByteSize ==
    (cmode = "value" /\ cpc = "serialized") =>
        /\ Len(cbuffer) = csize
        /\ TypeOf(ctype).k = "Struct" =>
              csize = FieldSum(TypeOf(ctype).f, cvalue, 1)

\* C5 happens: a record with a counted vector of records was serialized
C5_Witness ==
    /\ cmode = "value" /\ cpc = "serialized"
    /\ ctype = "RowDescription"
    /\ Len(cvalue.columns) = 2
    /\ csize > 2

\* C6, as stated: a frame written by put_message is the kind byte, the
\* big-endian length 4 + byte_size(body), then exactly byte_size(body) body
\* bytes; a request written by put_request is that length then the body.
C6_FramingOnSend ==
    /\ cpc = "put_message" =>
          /\ Len(cwritten) = 5 + csize
          /\ cwritten[1] = message_type(ctype)
          /\ GetI32(SubSeq(cwritten, 2, 5)) = 4 + csize
          /\ SubSeq(cwritten, 6, Len(cwritten)) = serialize(TypeOf(ctype), cvalue)
    /\ cpc = "put_request" =>
          /\ Len(cwritten) = 4 + csize
          /\ GetI32(SubSeq(cwritten, 1, 4)) = 4 + csize
          /\ SubSeq(cwritten, 5, Len(cwritten)) = serialize(TypeOf(ctype), cvalue)

\* the buffer put_message and put_request compose is framed as C6 says; it is
\* the write of a buffer of BufWriterCapacity bytes or more that may cut it
C6_ComposedFrame ==
    /\ cpc = "put_message" =>
          cframe = << message_type(ctype) >> \o PutI32(4 + csize)
                       \o serialize(TypeOf(ctype), cvalue)
    /\ cpc = "put_request" =>
          cframe = PutI32(4 + csize) \o serialize(TypeOf(ctype), cvalue)
    /\ cpc \in {"put_message", "put_request"} =>
          /\ Len(cframe) < BufWriterCapacity => cwritten = cframe
          /\ Len(cwritten) <= Len(cframe)
          /\ cwritten = SubSeq(cframe, 1, Len(cwritten))

\* C7, as stated: whenever try_from projects a raw frame onto a typed message
\* m, the frame's header length is 4 + byte_size(m).
C7_FramingOnReceive ==
    (cmode = "frame" /\ cpc = "try_from" /\ cresult.ok) =>
        craw.header.length = 4 + byte_size(TypeOf(ctype), cresult.val)

\* the last byte of a buffer is not 0x00
LastByteNotNull(buf) == Len(buf) >= 1 /\ buf[Len(buf)] # 0

IsVecNull(name) == TypeOf(name).k = "VecNull"

\* C8, as stated: for a non-empty buffer whose last byte is not 0x00 VecNull
\* deserialization fails with a terminator error, it fails on an exhausted
\* buffer, and it never returns Ok.
C8_TerminatorError ==
    (cmode = "bytes" /\ cpc = "deserialized" /\ IsVecNull(ctype)
        /\ (LastByteNotNull(cbuffer) \/ cbuffer = << >>)) =>
        /\ ~cresult.ok
        /\ cresult.err \in {"Incorrect terminator in null terminated vec",
                            "missing null terminator in null terminated vec"}

\* C8, amended: for a non-empty buffer whose last byte is not 0x00, and for an
\* empty one, VecNull deserialization never returns Ok; it fails with the
\* terminator error when one byte is left after the elements, with the missing
\* terminator error when the elements use the buffer up, and with the
\* element's own error when the last element is cut short.
C8_NeverOk ==
    (cmode = "bytes" /\ cpc = "deserialized" /\ IsVecNull(ctype)
        /\ (LastByteNotNull(cbuffer) \/ cbuffer = << >>)) =>
        /\ ~cresult.ok
        /\ cresult.err \in {"Incorrect terminator in null terminated vec",
                            "missing null terminator in null terminated vec",
                            "TryGetError"}
        /\ cbuffer = << >> =>
              cresult.err = "missing null terminator in null terminated vec"
        /\ (ctype = "VecNull<Byte>" /\ cbuffer # << >>) =>
              cresult.err = "Incorrect terminator in null terminated vec"

\* C8 happens: a buffer ending in a byte other than 0x00 was refused by the
\* terminator check after one element
C8_Witness ==
    /\ cmode = "bytes" /\ cpc = "deserialized" /\ ctype = "VecNull<i32>"
    /\ Len(cbuffer) = 5 /\ LastByteNotNull(cbuffer)
    /\ ~cresult.ok
    /\ cresult.err = "Incorrect terminator in null terminated vec"

\* a DataRow body with one column of length -1
NullColumnBody == << 0, 1, 255, 255, 255, 255 >>

\* C9, as stated: decoding a DataRow frame whose column length is -1 and
\* encoding the decoded value again yields the length -1 again.
C9_NullPreserved ==
    (cmode = "frame" /\ cpc = "put_again" /\ ctype = "DataRow"
        /\ craw.raw_body = NullColumnBody) =>
        SubSeq(cframe, 6, Len(cframe)) = NullColumnBody

RECURSIVE FirstNull(_, _)
\* the index of the first 0x00 of buf from i on, 0 if there is none
FirstNull(buf, i) ==
    IF i > Len(buf) THEN 0
    ELSE IF buf[i] = 0 THEN i
    ELSE FirstNull(buf, i + 1)

KindMatches(name, raw) ==
    /\ raw.header.message_type = message_type(name)
    /\ name = "AuthenticationOk" =>
          Len(raw.raw_body) >= 4 /\ GetI32(raw.raw_body) = 0
    /\ name = "AuthenticationMD5Password" =>
          Len(raw.raw_body) >= 4 /\ GetI32(raw.raw_body) = 5

\* C23, as stated: X::try_from(f) returns Ok only if f's kind byte is X's
\* (and, for AuthenticationOk / AuthenticationMD5Password, the sub-kind in the
\* first 4 body bytes is 0 / 5), and on a mismatch it returns an error.
C23_KindChecked ==
    (cmode = "frame" /\ cpc = "try_from") =>
        /\ cresult.ok => KindMatches(ctype, craw)
        /\ ~KindMatches(ctype, craw) => (~cresult.ok /\ cresult.err # "panic")

\* what try_from does: Ok only on a match; on a mismatch an error, except on
\* an 'R' frame whose body is shorter than 4 bytes, where the two
\* Authentication projections panic in get_auth_message_kind
C23_OkOnlyOnMatch ==
    (cmode = "frame" /\ cpc = "try_from") =>
        /\ cresult.ok => KindMatches(ctype, craw)
        /\ ~KindMatches(ctype, craw) => ~cresult.ok
        /\ cresult.err = "panic" <=>
              /\ ctype \in {"AuthenticationOk", "AuthenticationMD5Password"}
              /\ craw.header.message_type = 82
              /\ Len(craw.raw_body) < 4

\* C24, as stated: RawRequest::get, RawBackendMessage::get,
\* RawFrontendMessage::get and get_auth_message_kind return Ok/Some or
\* Err/None on every input, never terminating abnormally.
C24_DecodeTotal ==
    /\ (cmode = "stream" /\ cpc = "get") => craw.st \in {"Ok", "Err"}
    /\ (cmode = "stream" /\ cpc = "get_auth_message_kind") =>
          cresult.st \in {"Some", "None"}

\* what they do: a panic exactly on a declared length below 4, on a request
\* body shorter than 4 bytes, and on an 'R' frame body shorter than 4 bytes
C24_PanicCases ==
    /\ (cmode = "stream" /\ cpc = "get" /\ ctype # "RawRequest") =>
          (craw.st = "panic" <=>
              (Len(cbuffer) >= 5 /\ GetI32(SubSeq(cbuffer, 2, 5)) < 4))
    /\ (cmode = "stream" /\ cpc = "get" /\ ctype = "RawRequest") =>
          (craw.st = "panic" <=>
              /\ Len(cbuffer) >= 4
              /\ \/ GetI32(cbuffer) < 4
                 \/ GetI32(cbuffer) < 8 /\ Len(cbuffer) >= GetI32(cbuffer))
    /\ (cmode = "stream" /\ cpc = "get_auth_message_kind") =>
          (cresult.st = "panic" <=>
              (craw.header.message_type = 82 /\ Len(craw.raw_body) < 4))

\* the stream holds a whole request with a request code: a length of at least
\* 8 and that many bytes
WholeRequest(stream) ==
    Len(stream) >= 8 /\ GetI32(stream) >= 8 /\ Len(stream) >= GetI32(stream)

\* the first 4 body bytes of the request, as a big-endian i32
RequestCodeOf(stream) == GetI32(SubSeq(stream, 5, 8))

\* the request kind of a request code
RequestKindOfCode(code) ==
    CASE code = 196608   -> "StartupMessage"
      [] code = 80877102 -> "CancelRequest"
      [] code = 80877103 -> "SSLRequest"
      [] code = 80877104 -> "GSSENCRequest"
      [] OTHER           -> "none"

\* C25: RawRequest::get returns Ok exactly when the request code of the
\* request read is 196608, 80877102, 80877103 or 80877104, with the kind of
\* that code; any other code yields an error; StartupMessage::try_from
\* succeeds only on a request of kind StartupMessage (196608).
C25_RequestKinds ==
    /\ (cmode = "stream" /\ ctype = "RawRequest" /\ cpc = "get") =>
          /\ craw.st = "Ok" <=>
                /\ WholeRequest(cbuffer)
                /\ RequestKindOfCode(RequestCodeOf(cbuffer)) # "none"
          /\ craw.st = "Ok" =>
                craw.request_kind = RequestKindOfCode(RequestCodeOf(cbuffer))
          /\ (WholeRequest(cbuffer) /\ RequestKindOfCode(RequestCodeOf(cbuffer)) = "none")
                => craw.st = "Err"
    /\ (cmode = "stream" /\ cpc = "startup_try_from" /\ cresult.ok) =>
          /\ craw.request_kind = "StartupMessage"
          /\ RequestCodeOf(cbuffer) = 196608

\* C25 happens: an SSLRequest was read, and a request with the code of
\* protocol 3.1 was refused
C25_Witness ==
    /\ cmode = "stream" /\ ctype = "RawRequest" /\ cpc = "get"
    /\ WholeRequest(cbuffer)
    /\ \/ craw.st = "Ok" /\ craw.request_kind = "SSLRequest"
       \/ craw.st = "Err" /\ RequestCodeOf(cbuffer) = 196609

\* the kind byte the protocol gives each frontend message kind the claim names
FrontendTaxonomy(kind) ==
    CASE kind = "Bind"         -> 66    \* 'B'
      [] kind = "Close"        -> 67    \* 'C'
      [] kind = "CopyData"     -> 100   \* 'd'
      [] kind = "CopyDone"     -> 99    \* 'c'
      [] kind = "CopyFail"     -> 102   \* 'f'
      [] kind = "Describe"     -> 68    \* 'D'
      [] kind = "Execute"      -> 69    \* 'E'
      [] kind = "Flush"        -> 72    \* 'H'
      [] kind = "FunctionCall" -> 70    \* 'F'
      [] kind = "Parse"        -> 80    \* 'P'
      [] kind = "Query"        -> 81    \* 'Q'
      [] kind = "Terminate"    -> 88    \* 'X'
      [] OTHER                 -> 112   \* 'p'

\* the kind bytes of the frontend taxonomy
FrontendTaxonomyBytes == {FrontendTaxonomy(kind) : kind \in FrontendMessageKinds}

\* C26, as stated: the frontend kind-byte mapping follows the taxonomy in
\* both directions: a kind converts to its taxonomy byte ('H' for Flush, 'F'
\* for FunctionCall), and a kind byte converts to the kind of that byte.
C26_FrontendKindBytes ==
    /\ (cmode = "kind" /\ cpc = "u8_from") => csize = FrontendTaxonomy(cvalue)
    /\ (cmode = "stream" /\ cpc = "get_message_kind" /\ cresult.st = "Some") =>
          FrontendTaxonomy(cresult.kind) = craw.header.message_type

\* what the mapping does: it follows the taxonomy but for Flush and
\* FunctionCall, whose bytes are exchanged: Flush is 'F', FunctionCall is 'H'
C26_FlushAndFunctionCallExchanged ==
    /\ (cmode = "kind" /\ cpc = "u8_from") =>
          csize = (CASE cvalue = "Flush"        -> 70
                     [] cvalue = "FunctionCall" -> 72
                     [] OTHER                   -> FrontendTaxonomy(cvalue))
    /\ (cmode = "stream" /\ cpc = "get_message_kind" /\ cresult.st = "Some") =>
          craw.header.message_type =
             (CASE cresult.kind = "Flush"        -> 70
                [] cresult.kind = "FunctionCall" -> 72
                [] OTHER                         -> FrontendTaxonomy(cresult.kind))

\* C27, as stated: get_message_kind returns None only for the kind byte 'p'
\* and for kind bytes outside the frontend taxonomy, Some kind for every other
\* kind byte (including 'P'), and that kind converts back to the kind byte.
C27_KindOfByte ==
    /\ (cmode = "stream" /\ cpc = "get_message_kind") =>
          (cresult.st = "None" <=>
              \/ craw.header.message_type = 112
              \/ craw.header.message_type \notin FrontendTaxonomyBytes)
    /\ (cmode = "stream" /\ cpc = "u8_from") => csize = craw.header.message_type

\* what get_message_kind does: None for 'P' as well; whatever kind it gives
\* converts back to the byte read
C27_NoneForParse ==
    /\ (cmode = "stream" /\ cpc = "get_message_kind") =>
          (cresult.st = "None" <=>
              \/ craw.header.message_type \in {112, 80}
              \/ craw.header.message_type \notin FrontendTaxonomyBytes)
    /\ (cmode = "stream" /\ cpc = "u8_from") => csize = craw.header.message_type

\* ------------------------------------------------------------------------
\* The layout of RowDescription (SpecCodec)
\* ------------------------------------------------------------------------
\* one column on the wire: the name as a C-string, then relation_id i32,
\* attribute_id i16, datatype_id i32, datatype_len i16, datatype_mod i32,
\* format i16, all big-endian
ColumnLayout(c) ==
    c.name \o << 0 >>
        \o PutI32(c.relation_id) \o PutI16(c.attribute_id) \o PutI32(c.datatype_id)
        \o PutI16(c.datatype_len) \o PutI32(c.datatype_mod) \o PutI16(c.format)

RECURSIVE ColumnsLayout(_, _, _)
ColumnsLayout(columns, lo, hi) ==
    IF lo > hi THEN << >>
    ELSE IF lo = hi THEN ColumnLayout(columns[lo])
    ELSE LET mid == (lo + hi) \div 2
         IN  ColumnsLayout(columns, lo, mid) \o ColumnsLayout(columns, mid + 1, hi)

\* 'T', the length, the 16-bit column count, the columns
RowDescriptionLayout(columns) ==
    LET count == << Len(columns) \div 256, Len(columns) % 256 >>
        body  == count \o ColumnsLayout(columns, 1, Len(columns))
    IN  << 84 >> \o PutI32(4 + Len(body)) \o body

\* C30, as stated: for the same column list the legacy
\* compose_row_description and the derived codec both produce 'T', the
\* length, the 16-bit column count and the columns' fields in declaration
\* order.
C30_SameLayout ==
    /\ (cmode = "columns" /\ cpc \in {"compose", "put_row_description"}) =>
          /\ cresult.ok
          /\ cresult.val = RowDescriptionLayout(ColumnListOf(cvalue))
    /\ (cmode = "columns" /\ cpc = "put_row_description") =>
          cframe = cresult.val

\* what the two composers do: the same frame of that layout for a list a
\* 16-bit count can hold; for a longer list the legacy composer returns an
\* error and the derived codec a frame whose count is the length cut to 16
\* bits
C30_SameLayoutWithinI16 ==
    LET columns == ColumnListOf(cvalue)
    IN  /\ (cmode = "columns" /\ cpc \in {"compose", "put_row_description"}) =>
              IF Len(columns) <= I16Max
              THEN cresult.ok /\ cresult.val = RowDescriptionLayout(columns)
              ELSE ~cresult.ok
        /\ (cmode = "columns" /\ cpc = "put_row_description") =>
              IF Len(columns) <= I16Max
              THEN cframe = cresult.val
              ELSE /\ SubSeq(cframe, 6, 7) = PutI16(AsI16(Len(columns)))
                   /\ AsI16(Len(columns)) < 0

\* ------------------------------------------------------------------------
\* Seed encodings and the legacy composers (SpecCodec)
\* ------------------------------------------------------------------------
SeedVariants == {"AuthenticationOk", "ReadyForQuery", "CommmandComplete"}
IsSeed(m) ==
    /\ m.variant \in SeedVariants
    /\ m.variant = "CommmandComplete" => m.command_tag = Select1

\* C31: put_message (the header of new_raw_header_from_body, then serialize)
\* gives 52 00 00 00 08 00 00 00 00 for AuthenticationOk, 5A 00 00 00 05 49
\* for ReadyForQuery(Idle) and 43 00 00 00 0D "SELECT 1" 00 for
\* CommandComplete("SELECT 1"), the bytes BackendMessage::compose of
\* src/backend.rs gives for the same messages.
C31_SeedEncodings ==
    (cmode = "legacy" /\ cpc = "put_same" /\ IsSeed(cvalue)) =>
        /\ cvalue.variant = "AuthenticationOk" =>
              cframe = << 82, 0, 0, 0, 8, 0, 0, 0, 0 >>
        /\ cvalue.variant = "ReadyForQuery" =>
              cframe = << 90, 0, 0, 0, 5, 73 >>
        /\ cvalue.variant = "CommmandComplete" =>
              cframe = << 67, 0, 0, 0, 13 >> \o Select1 \o << 0 >>
        /\ ctype = "backend::BackendMessage" => cresult = Ok(cframe, << >>)

\* C31 happens: CommandComplete("SELECT 1") was composed by src/backend.rs
\* and put by put_message, a frame of 14 bytes
C31_Witness ==
    /\ cmode = "legacy" /\ cpc = "put_same"
    /\ ctype = "backend::BackendMessage"
    /\ cvalue = [variant |-> "CommmandComplete", command_tag |-> Select1]
    /\ Len(cframe) = 14

\* the length field of a frame: the four bytes after the kind byte
LengthField(frame) == GetI32(SubSeq(frame, 2, 5))

\* C32: every frame composed by BackendMessage::compose, of src/backend.rs
\* and of src/main.rs, carries a length field equal to the number of bytes
\* after the kind byte; a CommandComplete frame's is len(tag) + 1 + 4, and a
\* DataRow frame's covers the column count and all column data.
C32_LengthField ==
    /\ (cmode = "legacy" /\ cpc \in {"compose", "put_same"} /\ cresult.ok) =>
          /\ LengthField(cresult.val) = Len(cresult.val) - 1
          /\ cvalue.variant = "CommmandComplete" =>
                LengthField(cresult.val) = Len(cvalue.command_tag) + 1 + 4
    /\ (cmode = "columns" /\ cpc \in {"compose", "put_row_description"} /\ cresult.ok) =>
          LengthField(cresult.val) = Len(cresult.val) - 1

\* the two composers whose length field is wrong: compose_command_complete of
\* src/main.rs and compose_data_row of src/backend.rs
WrongLength ==
    \/ ctype = "main::BackendMessage" /\ cvalue.variant = "CommmandComplete"
    \/ ctype = "backend::BackendMessage" /\ cvalue.variant = "DataRow"

\* every other composer writes the number of bytes after the kind byte;
\* main.rs writes one less for CommandComplete, backend.rs writes 5 for every
\* DataRow
C32_LengthFieldElsewhere ==
    /\ (cmode = "legacy" /\ cpc \in {"compose", "put_same"} /\ cresult.ok) =>
          /\ ~WrongLength => LengthField(cresult.val) = Len(cresult.val) - 1
          /\ (ctype = "main::BackendMessage" /\ cvalue.variant = "CommmandComplete") =>
                LengthField(cresult.val) = Len(cresult.val) - 2
          /\ (ctype = "backend::BackendMessage" /\ cvalue.variant = "DataRow") =>
                /\ LengthField(cresult.val) = 5
                /\ Len(cresult.val) - 1 >= 6
    /\ (cmode = "columns" /\ cpc \in {"compose", "put_row_description"} /\ cresult.ok) =>
          LengthField(cresult.val) = Len(cresult.val) - 1


\* ------------------------------------------------------------------------
\* Typed decodes and the envelope
\* ------------------------------------------------------------------------
\* C33, as stated: after one successful typed decode (try_from returning Ok)
\* on an envelope, every further typed decode on the same envelope returns an
\* error rather than a second message.
C33_DecodeOnce ==
    (cmode = "frame" /\ cpc = "try_from_again" /\ cvalue.ok) =>
        (~cresult.ok /\ cresult.err # "panic")

\* what the code does: the second decode is the decode of whatever the first
\* one left of the body, Ok whenever those bytes hold a message of the
\* struct asked for
C33_DecodesTheRest ==
    (cmode = "frame" /\ cpc = "try_from_again" /\ cvalue.ok) =>
        /\ craw.header = RawMessage_get(cbuffer).header
        /\ craw.raw_body = try_from(cvalue.first, RawMessage_get(cbuffer)).rest
        /\ cresult = try_from(cvalue.again, craw)
        /\ (cresult.ok /\ cvalue.again \notin {"AuthenticationOk", "AuthenticationMD5Password"})
              => deserialize(TypeOf(cvalue.again), craw.raw_body).ok

\* a second CommandComplete decoded from the envelope of one frame
C33_SecondMessage ==
    /\ cmode = "frame" /\ cpc = "try_from_again" /\ cvalue.ok
    /\ cvalue.first = "CommandComplete" /\ cvalue.again = "CommandComplete"
    /\ cresult.ok

\* C37: get_message_kind, get_auth_message_kind and a typed decode that
\* fails on a kind or sub-kind mismatch leave the envelope's header and body
\* as RawBackendMessage::get / RawFrontendMessage::get produced them, so a
\* typed decode that follows on the same envelope returns what it returns on
\* the fresh envelope.
C37_InspectionKeepsEnvelope ==
    /\ (cmode = "stream" /\ cpc \in {"get_auth_message_kind", "get_message_kind"})
          => craw = RawMessage_get(cbuffer)
    /\ (cmode = "frame" /\ cpc = "try_from" /\ ~KindMatches(ctype, craw))
          => EnvelopeAfter(craw, cresult) = RawMessage_get(cbuffer)
    /\ (cmode = "frame" /\ cpc = "try_from_again"
            /\ ~KindMatches(cvalue.first, RawMessage_get(cbuffer)))
          => /\ craw = RawMessage_get(cbuffer)
             /\ cresult = try_from(cvalue.again, RawMessage_get(cbuffer))

\* a BackendKeyData decoded after ParameterStatus::try_from failed on the
\* kind byte of the same envelope
C37_Witness ==
    /\ cmode = "frame" /\ cpc = "try_from_again"
    /\ cvalue.first = "ParameterStatus" /\ cvalue.again = "BackendKeyData"
    /\ ~cvalue.ok /\ cresult.ok
    /\ craw.header.message_type = 75

\* ------------------------------------------------------------------------
\* The bytes that reach the transport (SpecCodec)
\* ------------------------------------------------------------------------
\* C38, as stated: whatever the size of the message and however many bytes
\* the transport accepts in one write call, the bytes put_message and
\* put_request hand to the transport are the whole composed buffer, the
\* header followed by the whole serialized body.
C38_CompleteFrame ==
    (cpc \in {"put_message", "put_request"}) => cwritten = cframe

\* a frame of which the transport got one byte
C38_OneByte ==
    /\ cpc = "put_message" /\ ctype = "DataRow"
    /\ Len(cframe) >= BufWriterCapacity
    /\ Len(cwritten) = 1

\* ------------------------------------------------------------------------
\* The executor and the handshake (Spec)
\* ------------------------------------------------------------------------
\* C36: on a connection of examples/server.rs the executor is called, and a
\* Query frame read, only after AuthenticationOk and then ReadyForQuery(Idle)
\* were sent on it; when the handshake ended with an authentication failure
\* or an error, simple_query_handler never ran on the connection: no Query
\* frame was read and the executor was not called.
C36_ExecutorAfterHandshake ==
    /\ (nqueries > 0 \/ query.accepted \/ query.executed) =>
          /\ auth.called /\ auth.result /\ auth.ret = "Ok"
          /\ \E i, j \in 1..Len(query.before) :
                /\ i < j
                /\ query.before[i] = AuthenticationOkFrame
                /\ query.before[j] = ReadyForQueryIdleFrame
    /\ (auth.ret \notin {"None", "Ok"}) =>
          /\ pc = "Closed"
          /\ nqueries = 0
          /\ query = NoQuery

\* C36 happens: the executor was called on an authenticated connection
C36_Witness ==
    /\ query.executed /\ nqueries = 1
    /\ auth.called /\ auth.result
    /\ Len(query.before) = 4

\* ------------------------------------------------------------------------
\* The two halves connected (SpecPair)
\* ------------------------------------------------------------------------
\* C34, as stated: when the client's md5_authentication_handler has run
\* against the server's md5_authentication_handler and the auth predicate
\* returned true, both handlers have returned Ok.
C34_BothOk ==
    (/\ kcall = "md5_authentication_handler" /\ kret # "None"
     /\ auth.called /\ auth.result) =>
        (kret = "Ok" /\ auth.ret = "Ok")

\* what the two handlers do: the server's returns Ok, having sent
\* AuthenticationMD5Password, AuthenticationOk, ParameterStatus and
\* ReadyForQuery; the client's reads them and returns the error of the
\* BackendKeyData it did not find, and no Query is ever sent
C34_ClientRefuses ==
    /\ (/\ kcall = "md5_authentication_handler" /\ kret # "None"
        /\ auth.called /\ auth.result) =>
          /\ auth.ret = "Ok"
          /\ kret = "Err"
          /\ kerr = "BackendKeyData message expected"
          /\ krecv = << 82, 82, 83, 90 >>
    /\ kcall # "simple_query_handler"
    /\ ~query.accepted

\* the handler of the client waits in a read whose bytes are not there yet
ClientWaits ==
    /\ kpc \notin {"Idle", "Ended", "Off"}
    /\ ~FrameComplete(kstream)
\* the handler of the server waits in a read whose bytes are not there yet
ServerWaits ==
    /\ pc \in {"Startup", "AwaitPassword", "ReadyForQuery"}
    /\ ~(IF pc = "Startup" THEN RequestComplete(tcp_reader)
         ELSE FrameComplete(tcp_reader))

\* a step of the pair is possible: bytes in flight can be delivered, a
\* handler is to be called or main to return, or a read has its bytes or the
\* end of its stream
PairCanStep ==
    \/ c2s # << >> \/ s2c # << >>
    \/ kpc = "Idle"
    \/ kpc \notin {"Idle", "Ended", "Off"} /\ ClientReads
    \/ /\ pc \in {"Startup", "AwaitPassword", "ReadyForQuery"}
       /\ ServerReads(~ServerWaits)
       /\ tcp_reader \in PairStreams
       /\ pc = "ReadyForQuery" => nqueries < MaxQueries

\* C35: no reachable state of the two programs connected has both handlers
\* waiting in a read with both ends open and nothing in flight in either
\* direction; a handler that waits has bytes in flight towards it, or the
\* other side has ended, or the other side is not waiting itself; and as
\* long as one of the two has not ended a step is possible.
C35_NoDeadlock ==
    /\ ~(ClientWaits /\ ServerWaits /\ c2s = << >> /\ s2c = << >>)
    /\ ClientWaits => (s2c # << >> \/ c2s # << >> \/ pc = "Closed" \/ ~ServerWaits)
    /\ ServerWaits => (c2s # << >> \/ s2c # << >> \/ kpc = "Ended" \/ ~ClientWaits)
    /\ (kpc # "Ended" \/ pc # "Closed") => PairCanStep

\* C35 happens: both handlers wait in a read, the server in its query loop
\* and the client in its ParameterStatus loop, the bytes still in flight
C35_Witness ==
    /\ ClientWaits /\ ServerWaits
    /\ pc = "ReadyForQuery" /\ kpc = "AwaitParams"
    /\ s2c # << >>

=========================================================================
